---------------------------- MODULE Spec2Model ----------------------------
(***************************************************************************)
(* A model of the sales chatbot's tool layer:                              *)
(*   - getSalesAnalytics (FILTER / SUMMARY / ANALYTICS / TREND) over the   *)
(*     Sales table,                                                        *)
(*   - the CSV ingestion route with its (invoice, item, total) dedup key,  *)
(*   - the tool-call repair callback of the chat route and its onError     *)
(*     mapping,                                                            *)
(*   - retrieveRelevantSalesRecords over the Vector table.                 *)
(*                                                                         *)
(* Conventions.  Text is a sequence of one-character strings, so that      *)
(* substring tests, trimming and case conversion are computed and not      *)
(* assumed.  price and total are the Int columns of Sales (whole RM); a     *)
(* rendered amount is a pair (whole, two fraction digits).  A timestamp is *)
(* a day number, day 0 being Monday 2024-12-30 (the ingestion route stores *)
(* midnight-UTC dates only).                                               *)
(***************************************************************************)
EXTENDS Integers, Sequences, FiniteSets, TLC

VARIABLES
    \* storage
    sales,          \* the "Sales" table: a set of rows
    vectors,        \* the "Vector" table: a set of (id, embedding) rows
    \* getSalesAnalytics
    params,         \* arguments of the tool call in progress
    result,         \* what that call returned (or threw)
    queries,        \* storage queries the call issued, in order
    apc,            \* "idle" before a call, "done" after it
    \* CSV ingestion
    csvFile,        \* the parsed rows of the uploaded file
    ipc,            \* "idle", "start" (loop head of the stream), "insert"
    newCleanData,   \* rows of the file not stored yet, as the request saw them
    chunkNo,        \* index of the chunk being processed
    invoiceChunk,   \* Sales rows built for the current chunk
    retries,        \* P1017 retries of the current chunk
    overallProgress,
    stream,         \* messages enqueued on the response stream
    lastRun,        \* how the last request ended
    okRuns,         \* runs that inserted every chunk and closed the stream
    requests,       \* POST requests received
    nextId,         \* source of fresh ids (generateUUID)
    \* tool-call repair in the chat route
    rpc,            \* "idle", "parse", "repair", "reparse", "execute", "done"
    toolCall,       \* the tool call the chat model emitted
    firstError,     \* the error of the first parse, if any
    callbackRuns,   \* runs of experimental_repairToolCall for this call
    repairCalls,    \* generateText calls to the repair model for this call
    callbackReturn, \* what the callback returned (nothing, null or a call)
    execArgs,       \* the arguments the tool was executed with, if it was
    userMessage,    \* the error text onError put on the data stream, if any
    \* retrieval
    qpc,            \* "idle" before a retrieval, "done" after it
    userQuery,      \* the query text
    threshold,      \* the distance threshold, in thousandths
    scoredSales,    \* the rows retrieveRelevantSalesRecords returned
    \* chat route
    cpc,            \* position of the chat POST in progress, "idle" if none
    chatRequest,    \* the request: session, messages, chat id
    chats,          \* ids of the chats stored
    stored,         \* the messages stored, oldest first
    events,         \* what the request in progress has done so far, in order
    httpResponse,   \* the status the request was answered with, 0 if not yet
    modelResponse,  \* the messages and the reasoning the chat model produced
    sanitized,      \* the result of sanitizeResponseMessages
    posts,          \* chat POST requests received
    \* functions of the tool layer, applied on their own
    fnpc,           \* "idle" before an application, "done" after it
    fnInput,        \* what the function is applied to
    fnOutput,       \* what it returned
    \* uploads that run at the same time
    uploads         \* per upload request: its position, snapshot and batch

(***************************************************************************)
(* Bounds of the model.                                                    *)
(***************************************************************************)
MaxRows == 3

\* rows of an uploaded file, and uploads of it
MaxFileRows == 2

MaxRuns == 2

\* rows per insertion batch (50 in the route, scaled to the file sizes here)
ChunkSize == 1

\* rows of the Vector table during retrieval
MaxVectors == 3

\* chat requests in a behaviour
MaxPosts == 2

\* messages in a response handed to sanitizeResponseMessages
MaxResponseMessages == 2

\* nesting of the values handed to flattenToolArgs
MaxDepth == 3

(***************************************************************************)
(* Text helpers.                                                           *)
(***************************************************************************)
UpperLetters ==
    <<"A","B","C","D","E","F","G","H","I","J","K","L","M",
      "N","O","P","Q","R","S","T","U","V","W","X","Y","Z">>

LowerLetters ==
    <<"a","b","c","d","e","f","g","h","i","j","k","l","m",
      "n","o","p","q","r","s","t","u","v","w","x","y","z">>

ToLowerChar(c) ==
    IF \E i \in DOMAIN UpperLetters : UpperLetters[i] = c
    THEN LowerLetters[CHOOSE i \in DOMAIN UpperLetters : UpperLetters[i] = c]
    ELSE c

ToUpperChar(c) ==
    IF \E i \in DOMAIN LowerLetters : LowerLetters[i] = c
    THEN UpperLetters[CHOOSE i \in DOMAIN LowerLetters : LowerLetters[i] = c]
    ELSE c

ToLowerCase(s) == [i \in 1..Len(s) |-> ToLowerChar(s[i])]

ToUpperCase(s) == [i \in 1..Len(s) |-> ToUpperChar(s[i])]

\* String.prototype.includes / SQL LIKE '%sub%'
Includes(s, sub) ==
    \E i \in 0..(Len(s) - Len(sub)) : SubSeq(s, i + 1, i + Len(sub)) = sub

(***************************************************************************)
(* Calendar: day 0 is Monday 2024-12-30; the model covers 2024-12-30 to    *)
(* 2025-02-28.                                                             *)
(***************************************************************************)
YearOf(d) == IF d <= 1 THEN 2024 ELSE 2025

MonthOf(d) == IF d <= 1 THEN 12 ELSE IF d <= 32 THEN 1 ELSE 2

MonthStart(d) == IF d <= 1 THEN -29 ELSE IF d <= 32 THEN 2 ELSE 33

DayOfMonth(d) == d - MonthStart(d) + 1

\* new Date("YYYY-MM-DD"): an ISO date-only string is midnight UTC of that day
ParseISODate(iso) ==
    CASE iso.y = 2024 /\ iso.m = 12 -> iso.d - 30
      [] iso.y = 2025 /\ iso.m = 1  -> iso.d + 1
      [] iso.y = 2025 /\ iso.m = 2  -> iso.d + 32

\* Date.prototype.toISOString().split("T")[0]
ToISODate(d) == [y |-> YearOf(d), m |-> MonthOf(d), d |-> DayOfMonth(d)]

(***************************************************************************)
(* The Sales table.  A row carries the columns the tools read.             *)
(***************************************************************************)
Row(id, invoice, customer, day, address, item, quantity, price, total, pm) ==
    [id |-> id, invoice |-> invoice, customer |-> customer,
     purchaseDate |-> day, address |-> address, item |-> item,
     quantity |-> quantity, price |-> price, total |-> total,
     paymentMethod |-> pm]

\* Rows a dataset is drawn from: one invoice with two items, a free item
\* (quantity 0, total 0), two payment methods, customers differing in letter case, and
\* dates in two years, three months and three ISO weeks.
RowPool ==
    { Row(1, <<"J","1","0">>, <<"A","l">>, 2, <<"K","L">>,
            <<"W","I","D","G","E","T">>, 2, 10, 20, "Cash"),
      Row(2, <<"J","1","0">>, <<"A","l">>, 2, <<"K","L">>,
            <<"G","A","D","G","E","T">>, 1, 5, 5, "Cash"),
      Row(3, <<"J","2","0">>, <<"B","o">>, 4, <<"J","B">>,
            <<"W","I","D","G","E","T">>, 1, 10, 10, "Credit Card"),
      Row(4, <<"J","2","1">>, <<"a","L","i">>, 9, <<"K","L">>,
            <<"G","A","D","G","E","T">>, 0, 0, 0, "Cash"),
      Row(5, <<"J","3","0">>, <<"B","o">>, 41, <<"J","B">>,
            <<"W","I","D","G","E","T">>, 3, 5, 15, "Credit Card"),
      Row(6, <<"J","0","9">>, <<"B","o">>, 1, <<"J","B">>,
            <<"G","A","D","G","E","T">>, 2, 5, 10, "Cash") }

Datasets == {S \in SUBSET RowPool : Cardinality(S) <= MaxRows}

RECURSIVE SumOver(_, _)
\* sum of f[x] over the finite set S
SumOver(S, f) ==
    IF S = {} THEN 0
    ELSE LET x == CHOOSE y \in S : TRUE IN f[x] + SumOver(S \ {x}, f)

SumTotal(S) == SumOver(S, [r \in S |-> r.total])

\* every arrangement of the finite set S as a sequence without repetition
Arrangements(S) ==
    {f \in [1..Cardinality(S) -> S] : \A i, j \in DOMAIN f : i # j => f[i] # f[j]}

\* Number.prototype.toLocaleString("en-US", {minimumFractionDigits: 2,
\* maximumFractionDigits: 2}) of the number num / den: the nearest hundredth
FormatFraction(num, den) ==
    LET hundredths == (200 * num + den) \div (2 * den)
    IN  [whole |-> hundredths \div 100, frac |-> hundredths % 100]

FormatRM(n) == FormatFraction(n, 1)

(***************************************************************************)
(* Optional values: None is an absent / null / undefined field.            *)
(***************************************************************************)
None == {}

Some(v) == {v}

Get(o) == CHOOSE v \in o : TRUE

\* JavaScript truthiness of an optional text: null, undefined and "" are falsy
Truthy(o) == o # None /\ Get(o) # <<>>

(***************************************************************************)
(* Prisma / SQL where clauses over Sales and their evaluation.             *)
(***************************************************************************)
EmptyWhere ==
    [gte |-> None, lte |-> None, paymentMethod |-> None,
     invoice |-> None, customer |-> None]

\* the rows of S a where clause selects: gte / lte on purchaseDate, equality
\* on paymentMethod, contains on invoice, case-insensitive contains on customer
Matches(r, w) ==
    /\ w.gte = None \/ r.purchaseDate >= Get(w.gte)
    /\ w.lte = None \/ r.purchaseDate <= Get(w.lte)
    /\ w.paymentMethod = None \/ r.paymentMethod = Get(w.paymentMethod)
    /\ w.invoice = None \/ Includes(r.invoice, Get(w.invoice))
    /\ w.customer = None
         \/ Includes(ToLowerCase(r.customer), ToLowerCase(Get(w.customer)))

Select(S, w) == {r \in S : Matches(r, w)}

Query(op, w) == [op |-> op, where |-> w]

(***************************************************************************)
(* getSalesAnalytics.execute                                               *)
(***************************************************************************)
\* buildDateFilter and "if (dateFilter) filter.purchaseDate = dateFilter"
BuildDateFilter(p) ==
    [EmptyWhere EXCEPT
       !.gte = IF p.startDate # None THEN Some(ParseISODate(Get(p.startDate)))
               ELSE None,
       !.lte = IF p.endDate # None THEN Some(ParseISODate(Get(p.endDate)))
               ELSE None]

\* the filter object of the FILTER branch
FilterWhere(p) ==
    [BuildDateFilter(p) EXCEPT
       !.paymentMethod = IF p.paymentMethod # None THEN p.paymentMethod ELSE None,
       !.invoice = IF Truthy(p.invoice) THEN p.invoice ELSE None,
       !.customer = IF Truthy(p.customer) THEN p.customer ELSE None]

\* the filter object of the SUMMARY branch
SummaryWhere(p) == BuildDateFilter(p)

\* the filter object of the ANALYTICS branch once the payment method is set
AnalyticsWhere(p) ==
    [BuildDateFilter(p) EXCEPT
       !.paymentMethod = IF p.paymentMethod # None THEN p.paymentMethod ELSE None]

\* the WHERE clause of the TREND branch's raw query
TrendWhere(p) ==
    [EmptyWhere EXCEPT
       !.gte = IF p.startDate # None THEN Some(ParseISODate(Get(p.startDate)))
               ELSE None,
       !.lte = IF p.endDate # None THEN Some(ParseISODate(Get(p.endDate)))
               ELSE None]

NoRecordsText == <<"No sales records found for the given filters.">>

\* a findMany that sorts the wrong way round
OrderByPurchaseDateAsc(S) ==
    {f \in Arrangements(S) :
        \A i, j \in DOMAIN f : i < j => f[i].purchaseDate <= f[j].purchaseDate}

\* findMany(... orderBy: {purchaseDate: "desc"}): rows with equal dates come
\* in any order
OrderByPurchaseDateDesc(S) ==
    {f \in Arrangements(S) :
        \A i, j \in DOMAIN f : i < j => f[i].purchaseDate >= f[j].purchaseDate}

FilterLine(r) ==
    [invoice |-> r.invoice, customer |-> r.customer,
     purchaseDate |-> ToISODate(r.purchaseDate), total |-> FormatRM(r.total)]

\* the FILTER branch: the set of values it can return
FilterBranch(S, p) ==
    LET w == FilterWhere(p)
        rows == Select(S, w)
    IN  IF rows = {}
        THEN {[result |-> [kind |-> "text", text |-> NoRecordsText],
               queries |-> <<Query("findMany", w)>>]}
        ELSE {[result |-> [kind |-> "lines",
                           lines |-> [i \in DOMAIN f |-> FilterLine(f[i])]],
               queries |-> <<Query("findMany", w)>>] :
                 f \in OrderByPurchaseDateDesc(rows)}

SummaryLine(S, pm) ==
    LET g == {r \in S : r.paymentMethod = pm}
    IN  [paymentMethod |-> pm, count |-> Cardinality(g),
         total |-> FormatRM(SumTotal(g))]

\* the SUMMARY branch: groupBy paymentMethod, groups in any order
SummaryBranch(S, p) ==
    LET w == SummaryWhere(p)
        rows == Select(S, w)
        groups == {r.paymentMethod : r \in rows}
    IN  IF groups = {}
        THEN {[result |-> [kind |-> "text", text |-> NoRecordsText],
               queries |-> <<Query("groupBy", w)>>]}
        ELSE {[result |-> [kind |-> "summary",
                           lines |-> [i \in DOMAIN f |-> SummaryLine(rows, f[i])]],
               queries |-> <<Query("groupBy", w)>>] :
                 f \in Arrangements(groups)}

\* the text "Payment method '<pm>' is not available."
NotAvailableText(pm) == <<"Payment method '", pm, "' is not available.">>

\* aggregateResult._avg.total || 0, rendered with two fraction digits
FormatAverage(rows) ==
    IF rows = {} THEN FormatRM(0)
    ELSE FormatFraction(SumTotal(rows), Cardinality(rows))

\* the ANALYTICS branch: the payment-method check, then the requested scalar
AnalyticsBranch(S, p) ==
    LET hasPm == p.paymentMethod # None
        w == IF hasPm THEN AnalyticsWhere(p) ELSE BuildDateFilter(p)
        check == IF hasPm THEN <<Query("count", AnalyticsWhere(p))>> ELSE <<>>
        rows == Select(S, w)
    IN  IF hasPm /\ Cardinality(Select(S, AnalyticsWhere(p))) = 0
        THEN {[result |-> [kind |-> "text",
                           text |-> NotAvailableText(Get(p.paymentMethod))],
               queries |-> check]}
        ELSE IF p.analyticsType = Some("TOTAL_SALES")
        THEN {[result |-> [kind |-> "totalSales",
                           amount |-> FormatRM(SumTotal(rows))],
               queries |-> Append(check, Query("aggregateSum", w))]}
        ELSE IF p.analyticsType = Some("AVERAGE_SALES")
        THEN {[result |-> [kind |-> "averageSale",
                           amount |-> FormatAverage(rows)],
               queries |-> Append(check, Query("aggregateAvg", w))]}
        ELSE IF p.analyticsType = Some("SALES_COUNT")
        THEN {[result |-> [kind |-> "salesCount", count |-> Cardinality(rows)],
               queries |-> Append(check, Query("count", w))]}
        ELSE {[result |-> [kind |-> "text", text |-> <<"Invalid analytics type provided.">>],
               queries |-> check]}

\* date_trunc(interval, "purchaseDate"); a week starts on Monday
DateTrunc(interval, d) ==
    CASE interval = "day"   -> d
      [] interval = "week"  -> (d \div 7) * 7
      [] interval = "month" -> MonthStart(d)

\* params.groupBy ? params.groupBy.toLowerCase() : "day"
IntervalOf(groupBy) ==
    CASE groupBy = Some("DAY") -> "day" [] groupBy = Some("WEEK") -> "week"
      [] groupBy = Some("MONTH") -> "month" [] OTHER -> "day"

\* new Date(year, 0, 1) as a day number, and its getDay()
JanFirst(year) == IF year = 2024 THEN -364 ELSE 2

JanFirstWeekday(year) == IF year = 2024 THEN 1 ELSE 3

\* Math.ceil(((trendDate - firstDay) / 86400000 + firstDay.getDay() + 1) / 7)
WeekNumber(d) ==
    (d - JanFirst(YearOf(d)) + JanFirstWeekday(YearOf(d)) + 1 + 6) \div 7

\* periodStr of a bucket
PeriodStr(groupBy, d) ==
    CASE groupBy = Some("DAY")   -> [kind |-> "day", date |-> ToISODate(d)]
      [] groupBy = Some("WEEK")  ->
           [kind |-> "week", y |-> YearOf(d), w |-> WeekNumber(d)]
      [] groupBy = Some("MONTH") ->
           [kind |-> "month", y |-> YearOf(d), m |-> MonthOf(d)]
      [] OTHER -> [kind |-> "timestamp", date |-> ToISODate(d)]

\* one row of the raw query's result: period, SUM(total), COUNT(*)
Bucket(rows, interval, period) ==
    LET g == {r \in rows : DateTrunc(interval, r.purchaseDate) = period}
    IN  [period |-> period, total |-> SumTotal(g), count |-> Cardinality(g)]

\* sortField: trendSortBy "totalSales" reads column total, "count" column count
SortKey(p, b) == IF p.trendSortBy = "totalSales" THEN b.total ELSE b.count

\* ORDER BY sortField sortOrder: equal keys come in any order
OrderBuckets(B, p) ==
    {f \in Arrangements(B) :
        \A i, j \in DOMAIN f : i < j =>
            IF p.trendOrder = "ASC" THEN SortKey(p, f[i]) <= SortKey(p, f[j])
            ELSE SortKey(p, f[i]) >= SortKey(p, f[j])}

\* LIMIT n when params.limit > 0
ApplyLimit(f, limit) ==
    IF limit > 0 /\ limit < Len(f) THEN SubSeq(f, 1, limit) ELSE f

TrendLine(groupBy, b) ==
    [period |-> PeriodStr(groupBy, b.period), total |-> FormatRM(b.total),
     count |-> b.count]

\* the TREND branch
TrendBranch(S, p) ==
    LET w == TrendWhere(p)
        interval == IntervalOf(p.groupBy)
        rows == Select(S, w)
        buckets == {Bucket(rows, interval, DateTrunc(interval, r.purchaseDate)) :
                      r \in rows}
    IN  {[result |-> [kind |-> "trend",
                      lines |-> [i \in DOMAIN ApplyLimit(f, p.limit) |->
                                   TrendLine(p.groupBy, f[i])]],
          queries |-> <<Query("queryRaw", w)>>] :
            f \in OrderBuckets(buckets, p)}

AnalyticsTypeRequired == "analyticsType is required for ANALYTICS operation."

GroupByRequired == "groupBy is required for TREND operation."

Thrown(message) ==
    {[result |-> [kind |-> "error", message |-> message], queries |-> <<>>]}

\* an execute that validates analyticsType only
ExecuteWithoutGroupByCheck(S, p) ==
    IF p.operation = "ANALYTICS" /\ p.analyticsType = None
    THEN Thrown(AnalyticsTypeRequired)
    ELSE CASE p.operation = "FILTER"    -> FilterBranch(S, p)
           [] p.operation = "SUMMARY"   -> SummaryBranch(S, p)
           [] p.operation = "ANALYTICS" -> AnalyticsBranch(S, p)
           [] p.operation = "TREND"     -> TrendBranch(S, p)

\* execute: everything one call can return or throw, with the queries it issues
Execute(S, p) ==
    IF p.operation = "ANALYTICS" /\ p.analyticsType = None
    THEN Thrown(AnalyticsTypeRequired)
    ELSE IF p.operation = "TREND" /\ p.groupBy = None
    THEN Thrown(GroupByRequired)
    ELSE CASE p.operation = "FILTER"    -> FilterBranch(S, p)
           [] p.operation = "SUMMARY"   -> SummaryBranch(S, p)
           [] p.operation = "ANALYTICS" -> AnalyticsBranch(S, p)
           [] p.operation = "TREND"     -> TrendBranch(S, p)

(***************************************************************************)
(* Arguments a validated getSalesAnalytics call can carry.  limit,         *)
(* trendSortBy and trendOrder have schema defaults 0, "totalSales", "DESC".*)
(***************************************************************************)
StartDates == {None, Some([y |-> 2025, m |-> 1, d |-> 7])}

EndDates == {None, Some([y |-> 2025, m |-> 1, d |-> 3]), Some([y |-> 2025, m |-> 1, d |-> 31])}

PaymentMethodArgs == {None, Some("Cash"), Some("Bitcoin")}

InvoiceArgs == {None, Some(<<"J","1">>)}

CustomerArgs == {None, Some(<<"a","l">>)}

AnalyticsTypes == {"TOTAL_SALES", "AVERAGE_SALES", "SALES_COUNT"}

GroupBys == {"DAY", "WEEK", "MONTH"}

FilterArgs ==
    [startDate : StartDates, endDate : EndDates,
     paymentMethod : PaymentMethodArgs, invoice : InvoiceArgs,
     customer : CustomerArgs]

Params(op, F, analyticsType, groupBy, limit, trendSortBy, trendOrder) ==
    [operation |-> op, startDate |-> F.startDate, endDate |-> F.endDate,
     paymentMethod |-> F.paymentMethod, invoice |-> F.invoice,
     customer |-> F.customer, analyticsType |-> analyticsType,
     groupBy |-> groupBy, limit |-> limit, trendSortBy |-> trendSortBy,
     trendOrder |-> trendOrder]

ParamSpace ==
    {Params(op, F, None, None, 0, "totalSales", "DESC") :
        op \in {"FILTER", "SUMMARY"}, F \in FilterArgs}
    \cup {Params("ANALYTICS", F, t, None, 0, "totalSales", "DESC") :
            F \in FilterArgs, t \in {None} \cup {Some(a) : a \in AnalyticsTypes}}
    \cup {Params("TREND", F, None, g, l, s, o) :
            F \in FilterArgs, g \in {None} \cup {Some(a) : a \in GroupBys},
            l \in {0, 1}, s \in {"totalSales", "count"}, o \in {"ASC", "DESC"}}

\* what "lines.join('\n')" of a result is when there is no line: ""
IsEmptyString(res) ==
    /\ res.kind \in {"lines", "summary", "trend"}
    /\ res.lines = <<>>

(***************************************************************************)
(* CSV ingestion (the upload route's POST).                                *)
(***************************************************************************)
RECURSIVE TrimStart(_)
TrimStart(s) == IF s # <<>> /\ Head(s) = " " THEN TrimStart(Tail(s)) ELSE s

RECURSIVE TrimEnd(_)
TrimEnd(s) ==
    IF s # <<>> /\ s[Len(s)] = " " THEN TrimEnd(SubSeq(s, 1, Len(s) - 1)) ELSE s

\* String.prototype.trim
Trim(s) == TrimEnd(TrimStart(s))

UndefinedText == <<"U","n","d","e","f","i","n","e","d">>

Digits == <<"0","1","2","3","4","5","6","7","8","9">>

DigitChar(n) == Digits[n + 1]

DigitValue(c) == (CHOOSE i \in DOMAIN Digits : Digits[i] = c) - 1

RECURSIVE NumberToText(_)
\* `${total}`: the decimal digits of a non-negative integer
NumberToText(n) ==
    IF n < 10 THEN <<DigitChar(n)>>
    ELSE NumberToText(n \div 10) \o <<DigitChar(n % 10)>>

RECURSIVE DigitsToNumber(_)
DigitsToNumber(s) ==
    IF s = <<>> THEN 0
    ELSE 10 * DigitsToNumber(SubSeq(s, 1, Len(s) - 1)) + DigitValue(s[Len(s)])

\* parseFloat(text.replace(/^RM/, "").replace(/,/g, "").trim()) of a text
\* that holds a whole amount
ParseMoney(text) ==
    LET noRM == IF Len(text) >= 2 /\ SubSeq(text, 1, 2) = <<"R","M">>
                THEN SubSeq(text, 3, Len(text)) ELSE text
        noCommas == SelectSeq(noRM, LAMBDA c : c # ",")
    IN  DigitsToNumber(Trim(noCommas))

\* parseDate: "DD/MM/YY" or "DD/MM/YYYY" to midnight UTC of that day
ParseDate(dt) ==
    ParseISODate([y |-> IF dt.yearDigits = 2 THEN dt.y + 2000 ELSE dt.y,
                  m |-> dt.m, d |-> dt.d])

CsvRow(co, addr1, line2, country, invoiceNo, dt, quantity, description, price, total, pm) ==
    [coLastName |-> co, addr1 |-> addr1, line2 |-> line2, country |-> country,
     invoiceNo |-> invoiceNo, date |-> dt, quantity |-> quantity,
     description |-> description, price |-> price, total |-> total,
     paymentMethod |-> pm]

IdealTech ==
    <<"I","D","E","A","L"," ","T","E","C","H"," ",
      "S","E","R","V","I","C","E","S">>

\* Rows an uploaded file is made of: a mixed-case description, an upper-case
\* one, an empty one, a return (negative quantity) and an in-house transfer.
CsvPool ==
    { CsvRow(<<"A","l">>, <<"A","l">>, <<"K","L">>, <<"M","Y">>,
             <<"J","1","0"," ">>, [d |-> 1, m |-> 1, y |-> 25, yearDigits |-> 2],
             2, <<"W","i","d","g","e","t">>, <<"R","M","1","0">>,
             <<"R","M","2","0">>, "Cash"),
      CsvRow(<<"A","l">>, <<"A","l">>, <<"K","L">>, <<"M","Y">>,
             <<"J","1","0">>, [d |-> 1, m |-> 1, y |-> 2025, yearDigits |-> 4],
             1, <<"G","A","D","G","E","T"," ">>, <<"5">>, <<"5">>, "Cash"),
      CsvRow(<<"B","o">>, <<"S","h","o","p">>, <<>>, <<>>,
             <<"J","2","0">>, [d |-> 3, m |-> 1, y |-> 25, yearDigits |-> 2],
             1, <<>>, <<"0">>, <<"0">>, ""),
      CsvRow(<<"B","o">>, <<"B","o">>, <<"J","B">>, <<"M","Y">>,
             <<"J","3","0">>, [d |-> 9, m |-> 2, y |-> 25, yearDigits |-> 2],
             -1, <<"G","A","D","G","E","T">>, <<"5">>, <<"5">>, "Credit Card"),
      CsvRow(IdealTech, <<"H","Q">>, <<"K","L">>, <<"M","Y">>,
             <<"J","4","0">>, [d |-> 9, m |-> 2, y |-> 25, yearDigits |-> 2],
             1, <<"W","I","D","G","E","T">>, <<"1","0">>, <<"1","0">>, "Cash") }

\* cleanData: rows of the in-house company and returns are dropped
CleanData(data) ==
    SelectSeq(data, LAMBDA row :
        ~(Includes(row.coLastName, IdealTech) \/ row.quantity < 0))

\* `${invoice}-${item}-${total}`
DedupKey(invoice, item, total) ==
    invoice \o <<"-">> \o item \o <<"-">> \o NumberToText(total)

\* existingSalesSet: the keys of the rows already stored
ExistingSalesSet(S) == {DedupKey(r.invoice, r.item, r.total) : r \in S}

\* the key the filter computes for an incoming CSV row
IncomingKey(row) ==
    DedupKey(Trim(row.invoiceNo),
             IF Trim(row.description) = <<>> THEN UndefinedText
             ELSE Trim(row.description),
             ParseMoney(row.total))

\* newCleanData: the rows whose key is not stored yet
NewCleanData(data, S) ==
    SelectSeq(CleanData(data), LAMBDA row : IncomingKey(row) \notin ExistingSalesSet(S))

\* itemSanitise
ItemSanitise(row) ==
    IF Trim(row.description) = <<>> THEN UndefinedText
    ELSE ToUpperCase(Trim(row.description))

\* the stored customer: address line 1, with the company name unless it is
\* part of that line already
CustomerOf(row) ==
    IF Includes(row.addr1, row.coLastName) THEN Trim(row.addr1)
    ELSE Trim(row.addr1) \o <<",", " ">> \o Trim(row.coLastName)

\* [line2, country].filter(Boolean).join(", "), "Undefined" when empty
AddressSanitise(row) ==
    LET l2 == Trim(row.line2)
        c == Trim(row.country)
        joined == IF l2 = <<>> THEN c
                  ELSE IF c = <<>> THEN l2 ELSE l2 \o <<",", " ">> \o c
    IN  IF joined = <<>> THEN UndefinedText ELSE joined

PaymentMethodSanitise(row) ==
    IF row.paymentMethod = "" THEN "Undefined" ELSE row.paymentMethod

\* the Sales row built for a CSV row, under a fresh id
StoredRow(row, id) ==
    Row(id, Trim(row.invoiceNo), CustomerOf(row), ParseDate(row.date),
        AddressSanitise(row), ItemSanitise(row), row.quantity,
        ParseMoney(row.price), ParseMoney(row.total), PaymentMethodSanitise(row))

\* generateEmbeddings: the embedding client, a fixed function of the text
\* (vectors of dimension 4 stand for vector(4096))
EmbeddingOf(text) ==
    CASE text = <<"W","I","D","G","E","T">> -> <<9, 3, 3, 1>>
      [] text = <<"G","A","D","G","E","T">> -> <<5, 5, 5, 5>>
      [] text = UndefinedText               -> <<1, 9, 3, 3>>
      [] text = <<"B","O","L","T">>         -> <<3, 9, 3, 1>>
      [] text = <<"A">>                     -> <<1, 0, 0, 0>>
      [] text = <<"B">>                     -> <<0, 1, 0, 0>>
      [] OTHER                              -> <<0, 0, 1, 0>>

\* chunkArray(newCleanData, chunkSize): the number of chunks and the k-th one
NumChunks(data) == (Len(data) + ChunkSize - 1) \div ChunkSize

Chunk(data, k) ==
    SubSeq(data, (k - 1) * ChunkSize + 1,
           IF k * ChunkSize < Len(data) THEN k * ChunkSize ELSE Len(data))

\* invoiceChunk: the chunk's rows under ids firstId, firstId + 1, ...
BuildInvoiceChunk(chunk, firstId) ==
    [i \in DOMAIN chunk |-> StoredRow(chunk[i], firstId + i - 1)]

\* vectorData: one (id, embedding) per row of the chunk
VectorData(rows) ==
    {[id |-> rows[i].id, embedding |-> EmbeddingOf(rows[i].item)] : i \in DOMAIN rows}

RowsOf(rows) == {rows[i] : i \in DOMAIN rows}

maxRetries == 5

ProgressMessage(phase, progress, total) ==
    [phase |-> phase, progress |-> progress, total |-> total]

ErrorMessage(message) == [phase |-> "error", message |-> message]

\* files a request can carry
Files ==
    UNION {[1..n -> CsvPool] : n \in 0..MaxFileRows}

(***************************************************************************)
(* Tool calls of the chat route: the registry, the schemas the arguments   *)
(* are validated against, the repair callback and the error mapping.       *)
(*                                                                         *)
(* The arguments of a tool call are JSON text.  A text is modelled by      *)
(* whether it is well-formed JSON and, if so, the object it denotes: a      *)
(* record of JSON values, each a (type, value) pair.                       *)
(***************************************************************************)
Str(s) == [type |-> "string", v |-> s]

Num(s) == [type |-> "number", v |-> s]

JsonText(obj) == [wellFormed |-> TRUE, obj |-> obj]

NotJson == [wellFormed |-> FALSE, obj |-> [prose |-> Str("Here are the fixed arguments")]]

\* argument texts a language model can emit
ArgTexts ==
    { JsonText([operation |-> Str("FILTER")]),
      JsonText([operation |-> Str("filter")]),
      JsonText([operation |-> Str("TREND"), groupBy |-> Str("YEAR")]),
      JsonText([invoice |-> Str("J1")]),
      JsonText([invoice |-> Num("1")]),
      JsonText([groupBy |-> Str("ITEM")]),
      JsonText([queryType |-> Str("regions")]),
      NotJson }

\* baseTools / toolsMapping: the registry
ToolNames ==
    {"getSalesAnalytics", "getInvoiceDetails", "getTopAggregates", "getSalesMetadata"}

\* names a chat model can ask for: the registry's, and some it made up
RequestedNames == ToolNames \cup {"getWeather", "get_sales_analytics"}

Has(obj, key) == key \in DOMAIN obj

IsEnum(obj, key, values) ==
    /\ Has(obj, key)
    /\ obj[key].type = "string"
    /\ obj[key].v \in values

\* the parameter schemas of the registered tools, on the fields the argument
\* texts above use
SchemaAccepts(toolName, obj) ==
    CASE toolName = "getSalesAnalytics" ->
            /\ IsEnum(obj, "operation", {"FILTER", "SUMMARY", "ANALYTICS", "TREND"})
            /\ Has(obj, "groupBy") => IsEnum(obj, "groupBy", {"DAY", "WEEK", "MONTH"})
            /\ Has(obj, "invoice") => obj["invoice"].type = "string"
      [] toolName = "getInvoiceDetails" ->
            /\ Has(obj, "invoice")
            /\ obj["invoice"].type = "string"
      [] toolName = "getTopAggregates" ->
            IsEnum(obj, "groupBy",
                   {"ITEM", "STATE", "CUSTOMER", "INVOICE", "PAYMENT_METHOD"})
      [] toolName = "getSalesMetadata" ->
            IsEnum(obj, "queryType", {"paymentMethods", "regions", "dateRange"})
      [] OTHER -> FALSE

\* getExampleArgs(tool.parameters): every registered tool's parameters are a
\* z.object, so an example is built and nothing is thrown
GetExampleArgs(toolName) ==
    CASE toolName = "getSalesAnalytics" ->
            [thrown |-> FALSE, example |-> {"operation", "groupBy", "invoice"}]
      [] toolName = "getInvoiceDetails" ->
            [thrown |-> FALSE, example |-> {"invoice"}]
      [] toolName = "getTopAggregates" ->
            [thrown |-> FALSE, example |-> {"groupBy"}]
      [] toolName = "getSalesMetadata" ->
            [thrown |-> FALSE, example |-> {"queryType"}]

\* flattenToolArgs applied to the repair model's text: a string is not an
\* object, so the first line returns it unchanged
FlattenToolArgs(repairedArgs) == repairedArgs

\* what generateText of the repair model can do: answer with some text, or
\* fail (provider unreachable)
RepairModelAnswers == [ok : {TRUE}, text : ArgTexts] \cup {[ok |-> FALSE, text |-> NotJson]}

CallbackResult(kind, call, modelCalls) ==
    [kind |-> kind, call |-> call, modelCalls |-> modelCalls]

\* a callback that asks the repair model again when its first answer is not
\* JSON
RepairToolCallAskingTwice(call, error) ==
    IF error = "NoSuchToolError"
    THEN {CallbackResult("null", call, 0)}
    ELSE { IF ~a.ok THEN CallbackResult("thrown", call, 1)
           ELSE IF a.text.wellFormed
           THEN CallbackResult("call", [call EXCEPT !.args = FlattenToolArgs(a.text)], 1)
           ELSE IF ~b.ok THEN CallbackResult("thrown", call, 2)
           ELSE CallbackResult("call", [call EXCEPT !.args = FlattenToolArgs(b.text)], 2)
           : a \in RepairModelAnswers, b \in RepairModelAnswers }

\* a callback without the NoSuchToolError test: tools[toolName] is undefined
\* and reading its parameters throws
RepairToolCallWithoutNoSuchToolTest(call, error) ==
    IF call.toolName \notin ToolNames
    THEN {CallbackResult("thrown", call, 0)}
    ELSE { IF a.ok
           THEN CallbackResult("call", [call EXCEPT !.args = FlattenToolArgs(a.text)], 1)
           ELSE CallbackResult("thrown", call, 1)
           : a \in RepairModelAnswers }

\* experimental_repairToolCall: the outcomes of one run of the callback,
\* with the number of calls it made to the repair model
RepairToolCall(call, error) ==
    IF error = "NoSuchToolError"
    THEN {CallbackResult("null", call, 0)}
    ELSE IF GetExampleArgs(call.toolName).thrown
    THEN {CallbackResult("thrown", call, 0)}
    ELSE { IF a.ok
           THEN CallbackResult("call", [call EXCEPT !.args = FlattenToolArgs(a.text)], 1)
           ELSE CallbackResult("thrown", call, 1)
           : a \in RepairModelAnswers }

\* onError of createDataStreamResponse
OnError(error) ==
    IF error = "NoSuchToolError" THEN "No such tool exist!"
    ELSE IF error = "InvalidToolArgumentsError" THEN "Tool Arguments Invalid!"
    ELSE IF error = "ToolExecutionError" THEN "Tool Execution Failed!"
    ELSE IF error = "ToolCallRepairError" THEN "Tool Repair Failed!"
    ELSE "Oops, an error occured!"

\* the library's parse of a tool call against the tools given to streamText:
\* the name is looked up, then the argument text is parsed and validated
DoParseToolCall(call) ==
    IF call.toolName \notin ToolNames THEN "NoSuchToolError"
    ELSE IF ~call.args.wellFormed THEN "InvalidToolArgumentsError"
    ELSE IF ~SchemaAccepts(call.toolName, call.args.obj) THEN "InvalidToolArgumentsError"
    ELSE "ok"

(***************************************************************************)
(* retrieveRelevantSalesRecords: cosine distance over the Vector table.    *)
(* Distances and thresholds are in thousandths.                            *)
(***************************************************************************)
Dot(a, b) == a[1]*b[1] + a[2]*b[2] + a[3]*b[3] + a[4]*b[4]

RECURSIVE IsqrtBetween(_, _, _)
IsqrtBetween(n, lo, hi) ==
    IF lo = hi THEN lo
    ELSE LET mid == (lo + hi + 1) \div 2
         IN  IF mid * mid <= n THEN IsqrtBetween(n, mid, hi)
             ELSE IsqrtBetween(n, lo, mid - 1)

\* the largest r with r*r <= n
Isqrt(n) == IsqrtBetween(n, 0, n)

\* the <=> operator: 1 - cos(a, b); exact on the vectors used here, whose
\* norms are whole numbers
CosineDistance(a, b) ==
    1000 - (1000 * Dot(a, b)) \div Isqrt(Dot(a, a) * Dot(b, b))

\* the threshold parameter's default, 0.7
DefaultThreshold == 700

VectorRow(id, embedding) == [id |-> id, embedding |-> embedding]

\* rows the Vector table can hold; embedding is a NOT NULL column
VectorPool ==
    { VectorRow(1, <<9, 3, 3, 1>>),
      VectorRow(2, <<5, 5, 5, 5>>),
      VectorRow(3, <<1, 9, 3, 3>>),
      VectorRow(4, <<3, 9, 3, 1>>),
      VectorRow(5, <<3, 1, 9, 3>>),
      VectorRow(6, <<-10, 0, 0, 0>>) }

VectorTables == {V \in SUBSET VectorPool : Cardinality(V) <= MaxVectors}

ScoredSale(v, q) == [id |-> v.id, score |-> CosineDistance(v.embedding, q)]

\* ORDER BY v.embedding <=> q
OrderedByDistance(seq) ==
    \A i \in 1..(Len(seq) - 1) : seq[i].score <= seq[i + 1].score

\* a query that keeps the rows strictly below the threshold
SelectScoredBelow(V, q, maxDistance) ==
    { seq \in Arrangements({ScoredSale(v, q) : v \in
                              {w \in V : CosineDistance(w.embedding, q) < maxDistance}}) :
        OrderedByDistance(seq) }

\* the raw query: the rows within maxDistance, closest first; rows at the
\* same distance come in any order
SelectScored(V, q, maxDistance) ==
    { seq \in Arrangements({ScoredSale(v, q) : v \in
                              {w \in V : CosineDistance(w.embedding, q) <= maxDistance}}) :
        OrderedByDistance(seq) }

\* retrieveRelevantSalesRecords(userQuery, threshold): the possible results
RetrieveRelevantSalesRecords(V, query, maxThreshold) ==
    SelectScored(V, EmbeddingOf(ToUpperCase(query)), maxThreshold)

QueryTexts == {<<"a">>, <<"B">>, <<"b","o","l","t">>}

Thresholds == {DefaultThreshold, 100, 500, 900, 1000}

(***************************************************************************)
(* getTopAggregates.execute                                                *)
(***************************************************************************)
\* the characters of a payment method, for substring filters
PaymentMethodChars(pm) ==
    CASE pm = "Cash"        -> <<"C","a","s","h">>
      [] pm = "Credit Card" -> <<"C","r","e","d","i","t"," ","C","a","r","d">>
      [] OTHER              -> <<"U","n","d","e","f","i","n","e","d">>

\* { contains: value, mode: "insensitive" }
ContainsInsensitive(text, value) == Includes(ToLowerCase(text), ToLowerCase(value))

EmptyTopWhere ==
    [gte |-> None, lte |-> None, address |-> None, customer |-> None,
     invoice |-> None, paymentMethod |-> None, item |-> None, idIn |-> None]

TopMatches(r, w) ==
    /\ w.gte = None \/ r.purchaseDate >= Get(w.gte)
    /\ w.lte = None \/ r.purchaseDate <= Get(w.lte)
    /\ w.address = None \/ ContainsInsensitive(r.address, Get(w.address))
    /\ w.customer = None \/ ContainsInsensitive(r.customer, Get(w.customer))
    /\ w.invoice = None \/ ContainsInsensitive(r.invoice, Get(w.invoice))
    /\ w.paymentMethod = None
         \/ ContainsInsensitive(PaymentMethodChars(r.paymentMethod), Get(w.paymentMethod))
    /\ w.item = None \/ ContainsInsensitive(r.item, Get(w.item))
    /\ w.idIn = None \/ r.id \in Get(w.idIn)

TopSelect(S, w) == {r \in S : TopMatches(r, w)}

\* buildStringFilter(value): undefined for a missing or empty value
BuildStringFilter(value) == IF Truthy(value) THEN value ELSE None

\* the filter object before the ITEM branch touches it
TopFilter(p) ==
    [EmptyTopWhere EXCEPT
       !.gte = IF p.startDate # None THEN Some(ParseISODate(Get(p.startDate)))
               ELSE None,
       !.lte = IF p.endDate # None THEN Some(ParseISODate(Get(p.endDate)))
               ELSE None,
       !.address = BuildStringFilter(p.region),
       !.customer = BuildStringFilter(p.customer),
       !.invoice = BuildStringFilter(p.invoice),
       !.paymentMethod = BuildStringFilter(p.paymentMethod)]

\* the filter object after "filter.id = { in: scoredIds }; filter.item = ..."
ItemFilter(p, scoredIds) ==
    IF Truthy(p.item)
    THEN [TopFilter(p) EXCEPT !.idIn = Some(scoredIds),
                              !.item = BuildStringFilter(p.item)]
    ELSE TopFilter(p)

\* the where clause of the fallback query: the scored ids and nothing else
FallbackWhere(scoredIds) == [EmptyTopWhere EXCEPT !.idIn = Some(scoredIds)]

NoGroupsText == <<"No groups found for the given filters.">>

SumQuantity(S) == SumOver(S, [r \in S |-> r.quantity])

SumPriceQuantity(S) == SumOver(S, [r \in S |-> r.price * r.quantity])

SumPrice(S) == SumOver(S, [r \in S |-> r.price])

\* an itemStats entry whose average is the mean of the unit prices
ItemStatsMeanOfPrices(rows, itemName) ==
    LET g == {r \in rows : r.item = itemName}
    IN  [group |-> itemName, count |-> Cardinality(g),
         totalQuantity |-> SumQuantity(g), totalSales |-> SumTotal(g),
         averagePrice |-> FormatFraction(SumPrice(g), Cardinality(g))]

\* itemStats[key] and the aggregatedItems entry made of it
ItemStats(rows, itemName) ==
    LET g == {r \in rows : r.item = itemName}
    IN  [group |-> itemName, count |-> Cardinality(g),
         totalQuantity |-> SumQuantity(g), totalSales |-> SumTotal(g),
         averagePrice |-> IF SumQuantity(g) > 0
                          THEN FormatFraction(SumPriceQuantity(g), SumQuantity(g))
                          ELSE FormatRM(0)]

\* the number a group is sorted by
TopSortKey(g, sortBy) ==
    IF sortBy = "COUNT" THEN g.count
    ELSE IF sortBy = "QUANTITY" THEN g.totalQuantity
    ELSE g.totalSales

\* Array.prototype.sort with a descending comparator: groups with equal keys
\* stay in the order storage returned them, which is any order
SortGroups(G, sortBy) ==
    {f \in Arrangements(G) :
        \A i, j \in DOMAIN f :
            i < j => TopSortKey(f[i], sortBy) >= TopSortKey(f[j], sortBy)}

\* slice(0, limitSanitise || undefined)
SliceTop(f, limit) ==
    IF limit = 0 \/ limit >= Len(f) THEN f ELSE SubSeq(f, 1, limit)

ItemLine(g) ==
    [item |-> g.group, count |-> g.count, totalQuantity |-> g.totalQuantity,
     totalSales |-> FormatRM(g.totalSales), averagePrice |-> g.averagePrice]

\* fieldMapping
GroupField(r, groupBy) ==
    CASE groupBy = "STATE"          -> r.address
      [] groupBy = "CUSTOMER"       -> r.customer
      [] groupBy = "INVOICE"        -> r.invoice
      [] groupBy = "PAYMENT_METHOD" -> PaymentMethodChars(r.paymentMethod)

\* one group of prisma.sales.groupBy({by: [groupField], _count, _sum})
GroupStats(rows, groupBy, key) ==
    LET g == {r \in rows : GroupField(r, groupBy) = key}
    IN  [group |-> key, count |-> Cardinality(g),
         totalQuantity |-> SumQuantity(g), totalSales |-> SumTotal(g)]

GroupLine(groupBy, g) ==
    [groupBy |-> groupBy, group |-> g.group, count |-> g.count,
     totalSales |-> FormatRM(g.totalSales), totalQuantity |-> g.totalQuantity]

\* the "Invoice Trends" block over the rows of a where clause
InvoiceSummary(rows) ==
    LET invoiceCount == Cardinality({r.invoice : r \in rows})
        totalInvoiceAmount == SumTotal(rows)
    IN  [uniqueInvoices |-> invoiceCount,
         totalInvoiceAmount |-> FormatRM(totalInvoiceAmount),
         averageInvoiceValue |->
            IF invoiceCount > 0
            THEN FormatFraction(totalInvoiceAmount, invoiceCount)
            ELSE FormatRM(0)]

TopQuery(op, w) == [op |-> op, where |-> w]

\* "if (region) { ... result = `${result}\n\n${invoiceSummary}` }"
WithInvoiceTrends(S, p, w, out) ==
    IF Truthy(p.region)
    THEN [result |-> [out.result EXCEPT
                        !.invoiceTrends = Some(InvoiceSummary(TopSelect(S, w)))],
          queries |-> Append(out.queries, TopQuery("groupByInvoice", w))]
    ELSE out

TopText(text, issued) ==
    [result |-> [kind |-> "text", text |-> text], queries |-> issued]

\* the ITEM branch: the scored ids of the item, the rows loaded in the catch
\* block (the try block always throws on filter[0].length), the fallback to
\* the scored rows, then the per-item statistics
TopItemBranch(S, V, p) ==
    LET hasItem == Truthy(p.item)
        scoredIds == IF hasItem
                     THEN {v.id : v \in {w \in V :
                              CosineDistance(w.embedding,
                                  EmbeddingOf(ToUpperCase(Get(p.item))))
                                <= DefaultThreshold}}
                     ELSE {}
        w == ItemFilter(p, scoredIds)
        batchQueries == IF scoredIds = {} THEN <<>>
                        ELSE <<TopQuery("findMany", [w EXCEPT !.idIn = Some(scoredIds)])>>
        loaded == IF scoredIds = {} THEN {}
                  ELSE TopSelect(S, [w EXCEPT !.idIn = Some(scoredIds)])
        fallback == loaded = {}
        salesData == IF fallback THEN TopSelect(S, FallbackWhere(scoredIds))
                     ELSE loaded
        issued == IF fallback
                  THEN Append(batchQueries,
                              TopQuery("findManyFallback", FallbackWhere(scoredIds)))
                  ELSE batchQueries
        stats == {ItemStats(salesData, name) : name \in {r.item : r \in salesData}}
    IN  IF hasItem /\ scoredIds = {}
        THEN {TopText(NoRecordsText, <<>>)}
        ELSE IF salesData = {}
        THEN {TopText(NoRecordsText, issued)}
        ELSE {WithInvoiceTrends(S, p, w,
                 [result |-> [kind |-> "items",
                              lines |-> [i \in DOMAIN SliceTop(f, p.limit) |->
                                           ItemLine(f[i])],
                              invoiceTrends |-> None],
                  queries |-> issued]) :
                f \in SortGroups(stats, p.sortBy)}

\* the other groupings: prisma's groupBy over the filter
TopGroupBranch(S, p) ==
    LET w == TopFilter(p)
        rows == TopSelect(S, w)
        groups == {GroupStats(rows, p.groupBy, key) :
                     key \in {GroupField(r, p.groupBy) : r \in rows}}
        issued == <<TopQuery("groupBy", w)>>
    IN  IF groups = {}
        THEN {TopText(NoGroupsText, issued)}
        ELSE {WithInvoiceTrends(S, p, w,
                 [result |-> [kind |-> "groups",
                              lines |-> [i \in DOMAIN SliceTop(f, p.limit) |->
                                           GroupLine(p.groupBy, f[i])],
                              invoiceTrends |-> None],
                  queries |-> issued]) :
                f \in SortGroups(groups, p.sortBy)}

\* execute: everything one call can return, with the queries it issues
TopExecute(S, V, p) ==
    IF p.groupBy = "ITEM" THEN TopItemBranch(S, V, p) ELSE TopGroupBranch(S, p)

(***************************************************************************)
(* Arguments a validated getTopAggregates call can carry.                  *)
(***************************************************************************)
TopGroupBys == {"ITEM", "STATE", "CUSTOMER", "INVOICE", "PAYMENT_METHOD"}

TopSortBys == {"TOTAL_SALES", "COUNT", "QUANTITY"}

TopLimits == {0, 1, 5}

RegionArgs == {None, Some(<<"k","l">>), Some(<<"J","B">>)}

ItemArgs == {None, Some(<<"w","i","d","g","e","t">>), Some(<<"b","o","l","t">>)}

\* the remaining filters, one at a time
TopOtherFilters ==
    { [startDate |-> None, endDate |-> None, customer |-> None,
       invoice |-> None, paymentMethod |-> None],
      [startDate |-> Some([y |-> 2025, m |-> 1, d |-> 7]), endDate |-> None,
       customer |-> None, invoice |-> None, paymentMethod |-> None],
      [startDate |-> None, endDate |-> Some([y |-> 2025, m |-> 1, d |-> 3]),
       customer |-> None, invoice |-> None, paymentMethod |-> None],
      [startDate |-> None, endDate |-> None, customer |-> Some(<<"b","o">>),
       invoice |-> None, paymentMethod |-> None],
      [startDate |-> None, endDate |-> None, customer |-> None,
       invoice |-> Some(<<"j","1">>), paymentMethod |-> None],
      [startDate |-> None, endDate |-> None, customer |-> None,
       invoice |-> None, paymentMethod |-> Some(<<"c","a","s","h">>)] }

TopParams(groupBy, sortBy, limit, region, item, F) ==
    [groupBy |-> groupBy, sortBy |-> sortBy, limit |-> limit,
     region |-> region, item |-> item, startDate |-> F.startDate,
     endDate |-> F.endDate, customer |-> F.customer, invoice |-> F.invoice,
     paymentMethod |-> F.paymentMethod]

TopParamSpace ==
    {TopParams(g, s, l, region, item, F) :
        g \in TopGroupBys, s \in TopSortBys, l \in TopLimits,
        region \in RegionArgs, item \in ItemArgs, F \in TopOtherFilters}

\* the Vector table after ingestion of S: the embedding of each row's item
VectorsOf(S) == {VectorRow(r.id, EmbeddingOf(r.item)) : r \in S}

(***************************************************************************)
(* getInvoiceDetails.execute                                               *)
(***************************************************************************)
\* a lookup by substring
InvoiceRowsContaining(S, invoice) == {r \in S : Includes(r.invoice, invoice)}

\* findMany({ where: { invoice } })
InvoiceRows(S, invoice) == {r \in S : r.invoice = invoice}

NoInvoiceRecordsText(invoice) ==
    <<"No records found for invoice ", invoice, ".">>

DetailLine(r) ==
    [customer |-> r.customer, purchaseDate |-> ToISODate(r.purchaseDate),
     address |-> r.address, item |-> r.item, quantity |-> r.quantity,
     price |-> FormatRM(r.price), total |-> FormatRM(r.total),
     paymentMethod |-> r.paymentMethod]

\* execute: the text for no rows, or the header, one line per row in the
\* order storage returns them, and the overall total
InvoiceDetails(S, invoice) ==
    LET invoiceData == InvoiceRows(S, invoice)
    IN  IF invoiceData = {}
        THEN {[result |-> [kind |-> "text", text |-> NoInvoiceRecordsText(invoice)],
               queries |-> <<Query("findMany", [invoice |-> invoice])>>]}
        ELSE {[result |-> [kind |-> "invoice",
                           invoice |-> invoice,
                           lines |-> [i \in DOMAIN f |-> DetailLine(f[i])],
                           overallTotal |-> FormatRM(SumTotal(invoiceData))],
               queries |-> <<Query("findMany", [invoice |-> invoice])>>] :
                 f \in Arrangements(invoiceData)}

\* invoice numbers a call can ask for: stored ones, a prefix of stored ones,
\* one in another letter case, one that is not stored
InvoiceNumbers ==
    { <<"J","1","0">>, <<"J","2","0">>, <<"J","1">>, <<"j","1","0">>, <<"X","9">> }

(***************************************************************************)
(* The chat route: sanitizeResponseMessages and the steps of POST.         *)
(*                                                                         *)
(* The content of a message is a string or a list of parts; a part has a   *)
(* type, a text (text and reasoning parts) and a toolCallId (tool-call and *)
(* tool-result parts).                                                     *)
(***************************************************************************)
TextPart(text) == [type |-> "text", text |-> text, toolCallId |-> 0]

ToolCallPart(id) == [type |-> "tool-call", text |-> <<>>, toolCallId |-> id]

ToolResultPart(id) == [type |-> "tool-result", text |-> <<>>, toolCallId |-> id]

ReasoningPart(reasoning) == [type |-> "reasoning", text |-> reasoning, toolCallId |-> 0]

StringContent(s) == [kind |-> "string", string |-> s, parts |-> <<>>]

PartsContent(parts) == [kind |-> "parts", string |-> <<>>, parts |-> parts]

Message(id, role, content) == [id |-> id, role |-> role, content |-> content]

\* toolResultIds: the toolCallId of every tool-result part of a tool message
ToolResultIds(messages) ==
    {messages[i].content.parts[j].toolCallId :
        <<i, j>> \in {<<a, b>> \in (DOMAIN messages) \X (1..8) :
                        /\ messages[a].role = "tool"
                        /\ b \in DOMAIN messages[a].content.parts
                        /\ messages[a].content.parts[b].type = "tool-result"}}

\* the filter over the parts of an assistant message
KeepPart(part, toolResultIds) ==
    IF part.type = "tool-call" THEN part.toolCallId \in toolResultIds
    ELSE IF part.type = "text" THEN Len(part.text) > 0
    ELSE TRUE

\* "reasoning && reasoning.trim().length > 0"
ValidReasoning(reasoning) == reasoning # None /\ Len(Trim(Get(reasoning))) > 0

\* the callback of messages.map (the reasoning property it adds to the
\* message beside the content is left out)
SanitizeMessage(message, toolResultIds, reasoning) ==
    IF message.role # "assistant" THEN message
    ELSE IF message.content.kind = "string" THEN message
    ELSE [message EXCEPT !.content =
            PartsContent(
              SelectSeq(message.content.parts,
                        LAMBDA part : KeepPart(part, toolResultIds))
              \o (IF ValidReasoning(reasoning)
                  THEN <<ReasoningPart(Get(reasoning))>> ELSE <<>>))]

\* the final filter: "Array.isArray(message.content) && message.content.length > 0"
KeepMessage(message) ==
    message.content.kind = "parts" /\ Len(message.content.parts) > 0

\* sanitizeResponseMessages({ messages, reasoning })
SanitizeResponseMessages(messages, reasoning) ==
    LET ids == ToolResultIds(messages)
        messagesBySanitizedContent ==
            [i \in DOMAIN messages |-> SanitizeMessage(messages[i], ids, reasoning)]
    IN  SelectSeq(messagesBySanitizedContent, KeepMessage)

\* messages a chat model's response is made of
ResponseMessagePool ==
    { Message(11, "assistant", PartsContent(<<TextPart(<<"h","i">>)>>)),
      Message(12, "assistant", PartsContent(<<TextPart(<<>>), ToolCallPart(1)>>)),
      Message(13, "assistant",
              PartsContent(<<ToolCallPart(1), TextPart(<<"a">>), ToolCallPart(2)>>)),
      Message(14, "assistant", StringContent(<<"H","e","l","l","o">>)),
      Message(15, "tool", PartsContent(<<ToolResultPart(1)>>)),
      Message(16, "assistant", PartsContent(<<TextPart(<<>>)>>)) }

ResponseMessageLists ==
    UNION {[1..n -> ResponseMessagePool] : n \in 0..MaxResponseMessages}

Reasonings == {None, Some(<<" ">>), Some(<<"o","k">>)}

\* getMostRecentUserMessage: the last message of role user, if any
GetMostRecentUserMessage(messages) ==
    LET users == SelectSeq(messages, LAMBDA m : m.role = "user")
    IN  IF users = <<>> THEN None ELSE Some(users[Len(users)])

\* a test that looks at the session only
AuthorizedBySession(session) == session # None

\* "!session || !session.userId" negated
Authorized(session) == session # None /\ Truthy(Get(session).userId)

\* the row saveMessages stores for the user's message
UserMessageRow(message, chatId) ==
    [id |-> message.id, chatId |-> chatId, role |-> message.role,
     content |-> message.content, parts |-> <<>>]

\* the row onFinish stores for a sanitized response message
ResponseMessageRow(message, chatId) ==
    LET reasoningParts == SelectSeq(message.content.parts,
                                    LAMBDA part : part.type = "reasoning")
    IN  [id |-> message.id, chatId |-> chatId, role |-> message.role,
         content |-> message.content,
         parts |-> IF reasoningParts = <<>> THEN <<>> ELSE <<reasoningParts[1]>>]

\* sessions of a request: none, one without a user id, one whose user id is
\* the empty string, one whose user id is blank, two users'
Sessions ==
    {None, Some([userId |-> None]), Some([userId |-> Some(<<>>)]),
     Some([userId |-> Some(<<" ">>)]),
     Some([userId |-> Some(<<"u","1">>)]),
     Some([userId |-> Some(<<"u","2">>)])}

\* message lists of a request
RequestMessageLists ==
    { <<>>,
      <<Message(2, "assistant", StringContent(<<"h","i">>))>>,
      <<Message(1, "user", StringContent(<<"q">>))>>,
      <<Message(1, "user", StringContent(<<"q">>)),
        Message(2, "assistant", StringContent(<<"h","i">>)),
        Message(3, "user", StringContent(<<"r">>))>> }

ChatIds == {1, 2}

\* what the chat model answers in a step of the chat specification
ChatResponses ==
    { [messages |-> <<Message(11, "assistant", PartsContent(<<TextPart(<<"h","i">>)>>))>>,
       reasoning |-> None],
      [messages |-> <<Message(13, "assistant",
                        PartsContent(<<ToolCallPart(1), TextPart(<<"a">>), ToolCallPart(2)>>)),
                      Message(15, "tool", PartsContent(<<ToolResultPart(1)>>))>>,
       reasoning |-> Some(<<"o","k">>)],
      [messages |-> <<Message(16, "assistant", PartsContent(<<TextPart(<<>>)>>))>>,
       reasoning |-> None],
      [messages |-> <<Message(14, "assistant", StringContent(<<"H","e","l","l","o">>))>>,
       reasoning |-> None] }

\* experimental_generateMessageId: fresh ids for the messages of a response
WithFreshIds(messages, base) ==
    [i \in DOMAIN messages |-> [messages[i] EXCEPT !.id = base + i]]

StoredIds(rows) == {rows[i].id : i \in DOMAIN rows}

(***************************************************************************)
(* retrieveRelevantSales: the total of all sales for a query that asks for *)
(* it, otherwise the ten stored rows most similar to the query.            *)
(***************************************************************************)
TotalSumPhrase == <<"t","o","t","a","l"," ","s","u","m">>

TotalSalesPhrase == <<"t","o","t","a","l"," ","s","a","l","e","s">>

HowMuchPhrase ==
    <<"h","o","w"," ","m","u","c","h"," ","w","a","s"," ","s","o","l","d">>

\* a test of the query text as it was typed
AsksForTotalAsTyped(query) ==
    \/ Includes(query, TotalSumPhrase)
    \/ Includes(query, TotalSalesPhrase)
    \/ Includes(query, HowMuchPhrase)

\* the condition of the first if
AsksForTotal(query) ==
    \/ Includes(ToLowerCase(query), TotalSumPhrase)
    \/ Includes(ToLowerCase(query), TotalSalesPhrase)
    \/ Includes(ToLowerCase(query), HowMuchPhrase)

\* prisma.sales.aggregate({ _sum: { total: true } }): null over no row
AggregateSumTotal(S) == IF S = {} THEN None ELSE Some(SumTotal(S))

\* "totalSales._sum.total?.toFixed(2) || 0": two fraction digits, and the
\* number 0, printed without fraction digits, for null
TotalSumAmount(sum) ==
    IF sum = None
    THEN [whole |-> 0, frac |-> 0, fractionDigits |-> 0]
    ELSE [whole |-> FormatFraction(Get(sum), 1).whole,
          frac |-> FormatFraction(Get(sum), 1).frac,
          fractionDigits |-> 2]

\* a call of the embedding client, as an entry of the list of calls
EmbeddingCall(text) == [op |-> "generateEmbeddings", text |-> text]

\* cosineSimilarity, in thousandths
CosineSimilarity(a, b) == (1000 * Dot(a, b)) \div Isqrt(Dot(a, a) * Dot(b, b))

\* the position of a character in the order of the codes
CharCode(c) ==
    LET codes == Digits \o UpperLetters \o LowerLetters
    IN  IF \E i \in DOMAIN codes : codes[i] = c
        THEN CHOOSE i \in DOMAIN codes : codes[i] = c
        ELSE 0

RECURSIVE TextLess(_, _)
\* the order of two texts, character by character
TextLess(s, t) ==
    IF t = <<>> THEN FALSE
    ELSE IF s = <<>> THEN TRUE
    ELSE IF CharCode(Head(s)) # CharCode(Head(t))
    THEN CharCode(Head(s)) < CharCode(Head(t))
    ELSE TextLess(Tail(s), Tail(t))

\* findMany({ where: { embedding: { not: JsonNull } }, orderBy: { invoice:
\* "desc" } }): every stored row carries the embedding of its item; rows of
\* one invoice come in any order
OrderByInvoiceDesc(S) ==
    {f \in Arrangements(S) :
        \A i, j \in DOMAIN f : i < j => ~TextLess(f[i].invoice, f[j].invoice)}

RECURSIVE SortByScoreDesc(_, _, _)
\* Array.prototype.sort((a, b) => b.score - a.score), which is stable: the
\* rows of the highest score of scores in the order of f, then the others
SortByScoreDesc(f, q, scores) ==
    IF scores = {} THEN <<>>
    ELSE LET top == CHOOSE s \in scores : \A t \in scores : t <= s
         IN  SelectSeq(f, LAMBDA sale :
                 CosineSimilarity(q, EmbeddingOf(sale.item)) = top)
             \o SortByScoreDesc(f, q, scores \ {top})

\* slice(0, 10)
TopTen(f) == SubSeq(f, 1, IF Len(f) < 10 THEN Len(f) ELSE 10)

\* the ids of the ten rows of f most similar to the query
ScoredSalesIds(f, queryEmbedding) ==
    LET scores == {CosineSimilarity(queryEmbedding, EmbeddingOf(f[k].item)) :
                      k \in DOMAIN f}
        scoredSales10 == TopTen(SortByScoreDesc(f, queryEmbedding, scores))
    IN  [i \in DOMAIN scoredSales10 |-> scoredSales10[i].id]

\* retrieveRelevantSales(userQuery): what it can return, with the calls made
RetrieveRelevantSales(S, query) ==
    IF AsksForTotal(query)
    THEN {[result |-> [kind |-> "totalSum",
                       amount |-> TotalSumAmount(AggregateSumTotal(S))],
           queries |-> <<Query("aggregateSum", EmptyWhere)>>]}
    ELSE {[result |-> [kind |-> "records",
                       ids |-> ScoredSalesIds(f, EmbeddingOf(query))],
           queries |-> <<EmbeddingCall(query), Query("findMany", EmptyWhere)>>] :
            f \in OrderByInvoiceDesc(S)}

\* a row whose total takes a thousands separator in the en-US format
LargeRow ==
    Row(5, <<"J","3","0">>, <<"B","o">>, 10, <<"J","B">>,
        <<"B","O","L","T">>, 3, 400, 1200, "Cash")

SalesTables == Datasets \cup {{LargeRow} \cup S : S \in {T \in Datasets : Cardinality(T) < MaxRows}}

\* queries a user can put
SalesQueryTexts ==
    { <<"T","o","t","a","l"," ","S","a","l","e","s","?">>,
      <<"T","H","E"," ","T","O","T","A","L"," ","S","U","M">>,
      <<"t","o","t","a","l"," ","s","u","m">>,
      <<"h","o","w"," ","m","u","c","h"," ","w","a","s"," ","s","o","l","d">>,
      <<"t","o","t","a","l","s">>,
      <<"B","O","L","T">>,
      <<"A">> }

(***************************************************************************)
(* The parameter schemas of the registered tools and their validation.     *)
(* The arguments of a call are a value per field of the schema, Undefined  *)
(* for a field the call does not carry; numbers are written as numerals.   *)
(***************************************************************************)
JsonNull == [type |-> "null", v |-> ""]

Undefined == [type |-> "undefined", v |-> ""]

NaN == [type |-> "number", v |-> "NaN"]

\* nullToUndefined: the two sentinel strings become null
NullToUndefined(arg) ==
    IF arg = Str("null") \/ arg = Str("None") THEN JsonNull ELSE arg

\* parseInt(val, 10) on the numerals of the model
ParseInt(s) ==
    CASE s \in {"0", "3", "5", "10"} -> Num(s)
      [] s = "2.5" -> Num("2")
      [] OTHER -> NaN

\* parseFloat(val) on the numerals of the model
ParseFloat(s) ==
    CASE s \in {"0", "3", "5", "10", "2.5"} -> Num(s)
      [] OTHER -> NaN

\* processed.toLowerCase().trim() on the spellings of the model
LowerTrim(s) ==
    CASE s \in {"Total Sales", "total sales", " TOTAL SALES "} -> "total sales"
      [] s \in {"COUNT", "Count", "count"} -> "count"
      [] s \in {"QUANTITY", "quantity"} -> "quantity"
      [] s = "TOTAL_SALES" -> "total_sales"
      [] OTHER -> s

\* preprocessSortBy
PreprocessSortBy(value) ==
    LET processed == NullToUndefined(value)
    IN  IF processed.type = "string"
        THEN CASE LowerTrim(processed.v) = "total sales" -> Str("TOTAL_SALES")
               [] LowerTrim(processed.v) = "count" -> Str("COUNT")
               [] LowerTrim(processed.v) = "quantity" -> Str("QUANTITY")
               [] OTHER -> processed
        ELSE processed

\* the function a field's z.preprocess applies, if the field has one
Preprocess(pre, arg) ==
    CASE pre = "nullToUndefined" -> NullToUndefined(arg)
      [] pre = "limitParseInt" ->
            IF NullToUndefined(arg).type = "string"
            THEN ParseInt(NullToUndefined(arg).v) ELSE NullToUndefined(arg)
      [] pre = "limitParseFloat" ->
            IF NullToUndefined(arg).type = "string"
            THEN ParseFloat(NullToUndefined(arg).v) ELSE NullToUndefined(arg)
      [] pre = "preprocessSortBy" -> PreprocessSortBy(arg)
      [] OTHER -> arg

\* a field of a z.object: its preprocess, its base type, and whether it is
\* optional, nullable, given a default
Field(pre, base, values, optional, nullable, default) ==
    [pre |-> pre, base |-> base, values |-> values, optional |-> optional,
     nullable |-> nullable, default |-> default]

OptionalString == Field("nullToUndefined", "string", {}, TRUE, TRUE, Undefined)

\* salesAnalyticsSchema
SalesAnalyticsSchema ==
    [operation |-> Field("none", "enum", {"FILTER", "SUMMARY", "ANALYTICS", "TREND"},
                         FALSE, FALSE, Undefined),
     startDate |-> OptionalString,
     endDate |-> OptionalString,
     paymentMethod |-> OptionalString,
     invoice |-> OptionalString,
     customer |-> OptionalString,
     analyticsType |-> Field("nullToUndefined", "enum",
                             {"TOTAL_SALES", "AVERAGE_SALES", "SALES_COUNT"},
                             TRUE, TRUE, Undefined),
     groupBy |-> Field("none", "enum", {"DAY", "WEEK", "MONTH"}, TRUE, FALSE, Undefined),
     limit |-> Field("limitParseInt", "number", {}, TRUE, TRUE, Num("0")),
     trendSortBy |-> Field("nullToUndefined", "enum", {"totalSales", "count"},
                           TRUE, TRUE, Str("totalSales")),
     trendOrder |-> Field("nullToUndefined", "enum", {"ASC", "DESC"},
                          TRUE, TRUE, Str("DESC"))]

\* getTopAggregates.parameters
TopAggregatesSchema ==
    [groupBy |-> Field("none", "enum",
                       {"ITEM", "STATE", "CUSTOMER", "INVOICE", "PAYMENT_METHOD"},
                       FALSE, FALSE, Undefined),
     sortBy |-> Field("preprocessSortBy", "enum", {"TOTAL_SALES", "COUNT", "QUANTITY"},
                      TRUE, TRUE, Str("TOTAL_SALES")),
     startDate |-> OptionalString,
     endDate |-> OptionalString,
     limit |-> Field("limitParseFloat", "number", {}, TRUE, TRUE, Num("5")),
     region |-> OptionalString,
     item |-> OptionalString,
     customer |-> OptionalString,
     invoice |-> OptionalString,
     paymentMethod |-> OptionalString]

\* getInvoiceDetails.parameters
InvoiceDetailsSchema ==
    [invoice |-> Field("none", "string", {}, FALSE, FALSE, Undefined)]

\* getSalesMetadata.parameters
SalesMetadataSchema ==
    [queryType |-> Field("none", "enum", {"paymentMethods", "regions", "dateRange"},
                         FALSE, FALSE, Undefined)]

\* tool.parameters of a registered tool
ParametersOf(toolName) ==
    CASE toolName = "getSalesAnalytics" -> SalesAnalyticsSchema
      [] toolName = "getTopAggregates" -> TopAggregatesSchema
      [] toolName = "getInvoiceDetails" -> InvoiceDetailsSchema
      [] toolName = "getSalesMetadata" -> SalesMetadataSchema

Parsed(ok, value) == [ok |-> ok, value |-> value]

\* the parse of the schema inside the preprocess: default, nullable,
\* optional, then the base type
ParseInner(field, x) ==
    IF x = Undefined
    THEN IF field.default # Undefined THEN Parsed(TRUE, field.default)
         ELSE Parsed(field.optional, Undefined)
    ELSE IF x = JsonNull THEN Parsed(field.nullable, JsonNull)
    ELSE CASE field.base = "string" -> Parsed(x.type = "string", x)
           [] field.base = "number" -> Parsed(x.type = "number" /\ x # NaN, x)
           [] field.base = "enum" ->
                 Parsed(x.type = "string" /\ x.v \in field.values, x)

\* the parse of one field
ParseField(field, arg) == ParseInner(field, Preprocess(field.pre, arg))

\* parameters.safeParse(args)
ParseArgs(toolName, args) ==
    LET schema == ParametersOf(toolName)
    IN  Parsed(\A f \in DOMAIN schema : ParseField(schema[f], args[f]).ok,
               [f \in DOMAIN schema |-> ParseField(schema[f], args[f]).value])

\* how execute reads a parsed field: every optional field is tested for
\* truthiness or compared with a literal, so undefined, null, "" and 0 are
\* read alike; trendSortBy becomes the sort column, sortBy the sort branch
ReadBy(toolName, f, value) ==
    LET falsy == value \in {Undefined, JsonNull, Str(""), Num("0")}
    IN  CASE toolName = "getSalesAnalytics" /\ f = "trendSortBy" ->
                IF value = Str("totalSales") \/ falsy THEN Str("total") ELSE value
          [] toolName = "getSalesAnalytics" /\ f = "trendOrder" ->
                IF falsy THEN Str("DESC") ELSE value
          [] toolName = "getTopAggregates" /\ f = "sortBy" ->
                IF value \in {Str("COUNT"), Str("QUANTITY")} THEN value
                ELSE Str("TOTAL_SALES")
          [] OTHER -> IF falsy THEN Undefined ELSE value

\* what a call does with its arguments: it fails validation, or execute
\* runs on the parsed fields as it reads them
BehaviourOf(toolName, args) ==
    LET parsed == ParseArgs(toolName, args)
    IN  IF ~parsed.ok THEN [valid |-> FALSE, read |-> <<>>]
        ELSE [valid |-> TRUE,
              read |-> [f \in DOMAIN parsed.value |->
                          ReadBy(toolName, f, parsed.value[f])]]

\* the optional fields of a schema
OptionalFields(toolName) ==
    {f \in DOMAIN ParametersOf(toolName) : ParametersOf(toolName)[f].optional}

\* calls that carry the required fields only, each with a value it accepts
MinimalArgs(toolName) ==
    LET schema == ParametersOf(toolName)
        required == {f \in DOMAIN schema : ~schema[f].optional}
        accepted(f) == IF schema[f].base = "enum" THEN schema[f].values ELSE {"J10"}
    IN  {[f \in DOMAIN schema |-> IF f \in required THEN Str(v[f]) ELSE Undefined] :
            v \in {w \in [required -> UNION {accepted(f) : f \in required}] :
                      \A f \in required : w[f] \in accepted(f)}}

\* values a language model puts in a field
FieldValues ==
    {Undefined, JsonNull, Str("null"), Str("None"), Str(""), Str("J10"),
     Str("MONTH"), Str("COUNT"), Str("Total Sales"), Str("count"), Str("ASC"),
     Str("3"), Str("2.5"), Num("3"), Num("0")}

(***************************************************************************)
(* flattenToolArgs over JSON values: a leaf (string, number, null), an     *)
(* object with its fields, or an array with its items.                     *)
(***************************************************************************)
Obj(fields) == [type |-> "object", fields |-> fields]

Arr(items) == [type |-> "array", items |-> items]

\* the literal shape {value: X}
Wrapper(x) == Obj([value |-> x])

RECURSIVE FlattenObj(_)
\* flattenToolArgs(obj) on a value that need not be a text
FlattenObj(obj) ==
    IF obj.type \notin {"object", "array"} THEN obj
    ELSE IF obj.type = "object" /\ DOMAIN obj.fields = {"value"}
    THEN obj.fields["value"]
    ELSE IF obj.type = "array"
    THEN Arr([i \in DOMAIN obj.items |-> FlattenObj(obj.items[i])])
    ELSE Obj([key \in DOMAIN obj.fields |-> FlattenObj(obj.fields[key])])

RECURSIVE JsonValues(_)
\* the JSON values nested at most depth deep
JsonValues(depth) ==
    IF depth = 0 THEN {Str("a"), Num("1"), JsonNull}
    ELSE LET inner == JsonValues(depth - 1)
         IN  inner
             \cup {Wrapper(x) : x \in inner}
             \cup {Obj([args |-> x]) : x \in inner}
             \cup {Arr(<<x>>) : x \in inner}
             \cup {Obj([value |-> x, type |-> Str("string")]) :
                      x \in {Str("a"), Num("1")}}

(***************************************************************************)
(* getExampleArgs over the parameter schemas.                              *)
(***************************************************************************)
\* a field that is a z.object of its own
ObjectField(shape) == [base |-> "object", shape |-> shape]

\* the class of the object a field's declaration evaluates to: the outermost
\* of z.preprocess, .default(), .nullable() and .optional(), else the class
\* of the base type (.describe() keeps the class)
ZodClass(field) ==
    IF field.base = "object" THEN "ZodObject"
    ELSE IF field.pre # "none" THEN "ZodEffects"
    ELSE IF field.default # Undefined THEN "ZodDefault"
    ELSE IF field.nullable THEN "ZodNullable"
    ELSE IF field.optional THEN "ZodOptional"
    ELSE CASE field.base = "enum" -> "ZodEnum"
           [] field.base = "string" -> "ZodString"
           [] field.base = "number" -> "ZodNumber"

\* fieldSchema._def.values, the list of options of an enum
EnumValues(values) == [type |-> "options", values |-> values]

RECURSIVE GetExampleArgsOf(_)
\* getExampleArgs(schema) for a ZodObject with the given shape
GetExampleArgsOf(shape) ==
    [key \in DOMAIN shape |->
        CASE ZodClass(shape[key]) = "ZodEnum" -> EnumValues(shape[key].values)
          [] ZodClass(shape[key]) = "ZodObject" ->
                Obj(GetExampleArgsOf(shape[key].shape))
          [] ZodClass(shape[key]) = "ZodString" -> Str("example")
          [] ZodClass(shape[key]) = "ZodNumber" -> Num("0")
          [] OTHER -> JsonNull]

\* a schema with an object nested in it, of plain fields
NestedSchema ==
    [mode |-> Field("none", "enum", {"A", "B"}, FALSE, FALSE, Undefined),
     filter |-> ObjectField(
        [name |-> Field("none", "string", {}, FALSE, FALSE, Undefined),
         count |-> Field("none", "number", {}, FALSE, FALSE, Undefined)])]

\* schemas getExampleArgs is applied to: the registered tools' and the
\* nested one
ExampleSchemas ==
    {[name |-> toolName, shape |-> ParametersOf(toolName)] : toolName \in ToolNames}
    \cup {[name |-> "nested", shape |-> NestedSchema]}

(***************************************************************************)
(* The registry: baseTools and toolsMapping.                               *)
(***************************************************************************)
\* baseTools: every registered name with its tool object
BaseTools == [name \in ToolNames |-> [tool |-> name]]

\* "const underscoreKey = key"
UnderscoreKey(key) == key

\* addUnderscoreAliases(tools): the tools, and tools[key] under
\* underscoreKey for every key whose underscoreKey is not a key yet
AddUnderscoreAliases(tools) ==
    [name \in DOMAIN tools \cup {UnderscoreKey(key) : key \in DOMAIN tools} |->
        IF name \in DOMAIN tools THEN tools[name]
        ELSE tools[CHOOSE key \in DOMAIN tools : UnderscoreKey(key) = name]]

ToolsMapping == AddUnderscoreAliases(BaseTools)

\* toolsMapping[name], None for a name that is no key
Dispatch(name) ==
    IF name \in DOMAIN ToolsMapping THEN Some(ToolsMapping[name]) ELSE None

\* the underscore spelling of a registered name
UnderscoreSpelling(name) ==
    CASE name = "getSalesAnalytics" -> "get_sales_analytics"
      [] name = "getInvoiceDetails" -> "get_invoice_details"
      [] name = "getTopAggregates" -> "get_top_aggregates"
      [] name = "getSalesMetadata" -> "get_sales_metadata"

\* names a tool is looked up by
DispatchNames ==
    RequestedNames \cup {UnderscoreSpelling(name) : name \in ToolNames}

(***************************************************************************)
(* Variable groups and their idle values.                                  *)
(***************************************************************************)
dbvars == <<sales, vectors>>

avars == <<params, result, queries, apc>>

ivars == <<csvFile, ipc, newCleanData, chunkNo, invoiceChunk, retries,
           overallProgress, stream, lastRun, okRuns, requests, nextId>>

rvars == <<rpc, toolCall, firstError, callbackRuns, repairCalls,
           callbackReturn, execArgs, userMessage>>

qvars == <<qpc, userQuery, threshold, scoredSales>>

cvars == <<cpc, chatRequest, chats, stored, events, httpResponse, modelResponse,
           sanitized, posts>>

fvars == <<fnpc, fnInput, fnOutput>>

uvars == <<uploads>>

vars == <<dbvars, avars, ivars, rvars, qvars, cvars, fvars, uvars>>

NoParams ==
    Params("FILTER", [startDate |-> None, endDate |-> None,
                      paymentMethod |-> None, invoice |-> None,
                      customer |-> None],
           None, None, 0, "totalSales", "DESC")

ToolLayerIdle ==
    /\ fnpc = "idle"
    /\ fnInput = <<>>
    /\ fnOutput = <<>>

NoUploads == uploads = <<>>

AnalyticsIdle ==
    /\ params = NoParams
    /\ result = [kind |-> "none"]
    /\ queries = <<>>
    /\ apc = "idle"

IngestIdle ==
    /\ ipc = "idle"
    /\ newCleanData = <<>>
    /\ chunkNo = 0
    /\ invoiceChunk = <<>>
    /\ retries = 0
    /\ overallProgress = 0
    /\ stream = <<>>
    /\ lastRun = "none"
    /\ okRuns = 0
    /\ requests = 0
    /\ nextId = 1

NoCall == [toolCallId |-> 0, toolName |-> "", args |-> NotJson]

RepairIdle ==
    /\ rpc = "idle"
    /\ toolCall = NoCall
    /\ firstError = "none"
    /\ callbackRuns = 0
    /\ repairCalls = 0
    /\ callbackReturn = CallbackResult("none", NoCall, 0)
    /\ execArgs = None
    /\ userMessage = ""

RetrieveIdle ==
    /\ qpc = "idle"
    /\ userQuery = <<>>
    /\ threshold = DefaultThreshold
    /\ scoredSales = <<>>

NoRequest == [session |-> None, messages |-> <<>>, id |-> 0]

NoModelResponse == [messages |-> <<>>, reasoning |-> None]

ChatIdle ==
    /\ cpc = "idle"
    /\ chatRequest = NoRequest
    /\ chats = {}
    /\ stored = <<>>
    /\ events = <<>>
    /\ httpResponse = 0
    /\ modelResponse = NoModelResponse
    /\ sanitized = <<>>
    /\ posts = 0

(***************************************************************************)
(* Specification of the analytics tool: a dataset, then any sequence of    *)
(* calls.                                                                  *)
(***************************************************************************)
InitAnalytics ==
    /\ sales \in Datasets
    /\ vectors = {}
    /\ AnalyticsIdle
    /\ csvFile = <<>>
    /\ IngestIdle
    /\ RepairIdle
    /\ RetrieveIdle
    /\ ChatIdle
    /\ ToolLayerIdle
    /\ NoUploads

\* one tool call, from the model's request to the value handed back
GetSalesAnalytics ==
    /\ apc = "idle"
    /\ \E p \in ParamSpace : \E o \in Execute(sales, p) :
           /\ params' = p
           /\ result' = o.result
           /\ queries' = o.queries
    /\ apc' = "done"
    /\ UNCHANGED <<dbvars, ivars, rvars, qvars, cvars, fvars, uvars>>

\* the result has been folded into the conversation; the next call may come
AnalyticsReturned ==
    /\ apc = "done"
    /\ apc' = "idle"
    /\ params' = NoParams
    /\ result' = [kind |-> "none"]
    /\ queries' = <<>>
    /\ UNCHANGED <<dbvars, ivars, rvars, qvars, cvars, fvars, uvars>>

NextAnalytics == GetSalesAnalytics \/ AnalyticsReturned

SpecAnalytics == InitAnalytics /\ [][NextAnalytics]_vars

(***************************************************************************)
(* Specification of CSV ingestion: the same file is uploaded again and     *)
(* again, one request after the other, into a store that starts empty.     *)
(***************************************************************************)
InitIngest ==
    /\ sales = {}
    /\ vectors = {}
    /\ AnalyticsIdle
    /\ csvFile \in Files
    /\ IngestIdle
    /\ RepairIdle
    /\ RetrieveIdle
    /\ ChatIdle
    /\ ToolLayerIdle
    /\ NoUploads

\* POST up to "return new Response(stream)": a request without a session,
\* without a file or with a file that does not parse is refused; otherwise
\* the rows not stored yet are worked out against the rows stored now
UploadPost ==
    /\ ipc = "idle"
    /\ requests < MaxRuns
    /\ requests' = requests + 1
    /\ \E request \in {"noSession", "noFile", "parseError", "file"} :
          IF request # "file"
          THEN /\ lastRun' = (IF request = "noSession" THEN "401" ELSE "400")
               /\ UNCHANGED <<ipc, newCleanData, chunkNo, stream,
                              overallProgress>>
          ELSE /\ lastRun' = "streaming"
               /\ newCleanData' = NewCleanData(csvFile, sales)
               /\ chunkNo' = 1
               /\ overallProgress' = 0
               /\ stream' = <<>>
               /\ ipc' = "start"
    /\ UNCHANGED <<dbvars, avars, rvars, qvars, cvars, fvars, uvars, csvFile, invoiceChunk, retries, okRuns, nextId>>

\* the head of "for (const chunk of chunks)": with no chunk left the stream
\* is closed; otherwise the chunk's rows are embedded and built, and the
\* embedding progress is enqueued (a failing embedding call rejects start())
StartChunk ==
    /\ ipc = "start"
    /\ IF chunkNo > NumChunks(newCleanData)
       THEN /\ ipc' = "idle"
            /\ lastRun' = "closed"
            /\ okRuns' = okRuns + 1
            /\ UNCHANGED <<invoiceChunk, retries, overallProgress, stream, nextId>>
       ELSE \E embedded \in BOOLEAN :
              IF embedded
              THEN LET chunk == Chunk(newCleanData, chunkNo)
                   IN  /\ invoiceChunk' = BuildInvoiceChunk(chunk, nextId)
                       /\ nextId' = nextId + Len(chunk)
                       /\ overallProgress' = overallProgress + Len(chunk)
                       /\ stream' = Append(stream,
                            ProgressMessage("embedding", overallProgress + Len(chunk),
                                            Len(newCleanData)))
                       /\ retries' = 0
                       /\ ipc' = "insert"
                       /\ UNCHANGED <<lastRun, okRuns>>
              ELSE /\ ipc' = "idle"
                   /\ lastRun' = "errored"
                   /\ UNCHANGED <<invoiceChunk, retries, overallProgress,
                                  stream, nextId, okRuns>>
    /\ UNCHANGED <<dbvars, avars, rvars, qvars, cvars, fvars, uvars, csvFile, newCleanData, chunkNo, requests>>

\* what one pass of the retry loop's try block can do: both inserts succeed,
\* or createMany or insertVectors throws P1017 or another error; createMany
\* of rows whose ids are stored already violates the primary key
InsertOutcomes ==
    IF \E r \in RowsOf(invoiceChunk) : \E q \in sales : q.id = r.id
    THEN {"createError"}
    ELSE {"inserted", "createP1017", "createError", "vectorsP1017", "vectorsError"}

\* one pass of "while (!inserted)"; $disconnect and $connect are awaited in
\* the catch block, outside any try, so a failing reconnection rejects
\* start() as a failing embedding call does
InsertAttempt ==
    /\ ipc = "insert"
    /\ \E outcome \in InsertOutcomes :
          /\ sales' = IF outcome \in {"inserted", "vectorsP1017", "vectorsError"}
                      THEN sales \cup RowsOf(invoiceChunk) ELSE sales
          /\ vectors' = IF outcome = "inserted"
                        THEN vectors \cup VectorData(invoiceChunk) ELSE vectors
          /\ CASE outcome = "inserted" ->
                    /\ stream' = Append(stream,
                         ProgressMessage("insertion", overallProgress,
                                         Len(newCleanData)))
                    /\ chunkNo' = chunkNo + 1
                    /\ ipc' = "start"
                    /\ UNCHANGED <<retries, lastRun>>
               [] outcome \in {"createP1017", "vectorsP1017"} ->
                    /\ retries' = retries + 1
                    /\ IF retries + 1 >= maxRetries
                       THEN /\ stream' = Append(stream,
                                 ErrorMessage("Max retries reached during insertion"))
                            /\ ipc' = "idle"
                            /\ lastRun' = "closed after error"
                       ELSE \E reconnected \in BOOLEAN :
                              IF reconnected
                              THEN UNCHANGED <<stream, ipc, lastRun>>
                              ELSE /\ ipc' = "idle"
                                   /\ lastRun' = "errored"
                                   /\ UNCHANGED stream
                    /\ UNCHANGED chunkNo
               [] outcome \in {"createError", "vectorsError"} ->
                    /\ stream' = Append(stream, ErrorMessage("error.message"))
                    /\ ipc' = "idle"
                    /\ lastRun' = "closed after error"
                    /\ UNCHANGED <<retries, chunkNo>>
    /\ UNCHANGED <<avars, rvars, qvars, cvars, fvars, uvars, csvFile, newCleanData, invoiceChunk, overallProgress,
                   okRuns, requests, nextId>>

NextIngest == UploadPost \/ StartChunk \/ InsertAttempt

SpecIngest == InitIngest /\ [][NextIngest]_vars

(***************************************************************************)
(* Specification of tool calls in a chat step.  streamText parses each     *)
(* tool call the chat model emits; a call that does not parse is handed to *)
(* experimental_repairToolCall once and what the callback returns is       *)
(* parsed again; an error ends up in onError, whose text goes to the user. *)
(***************************************************************************)
InitRepair ==
    /\ sales = {}
    /\ vectors = {}
    /\ AnalyticsIdle
    /\ csvFile = <<>>
    /\ IngestIdle
    /\ RepairIdle
    /\ RetrieveIdle
    /\ ChatIdle
    /\ ToolLayerIdle
    /\ NoUploads

\* the chat model emits a tool call
ToolCallEmitted ==
    /\ rpc = "idle"
    /\ \E name \in RequestedNames, args \in ArgTexts :
           toolCall' = [toolCallId |-> 1, toolName |-> name, args |-> args]
    /\ rpc' = "parse"
    /\ UNCHANGED <<firstError, callbackRuns, repairCalls, callbackReturn,
                   execArgs, userMessage>>
    /\ UNCHANGED <<dbvars, avars, ivars, qvars, cvars, fvars, uvars>>

\* the chat model's stream fails for a reason that has nothing to do with
\* tools
StreamFailed ==
    /\ rpc = "idle"
    /\ userMessage' = OnError("APICallError")
    /\ rpc' = "done"
    /\ UNCHANGED <<toolCall, firstError, callbackRuns, repairCalls,
                   callbackReturn, execArgs>>
    /\ UNCHANGED <<dbvars, avars, ivars, qvars, cvars, fvars, uvars>>

\* the first parse of the call
ParseToolCall ==
    /\ rpc = "parse"
    /\ LET error == DoParseToolCall(toolCall)
       IN  IF error = "ok"
           THEN /\ rpc' = "execute"
                /\ UNCHANGED firstError
           ELSE /\ rpc' = "repair"
                /\ firstError' = error
    /\ UNCHANGED <<toolCall, callbackRuns, repairCalls, callbackReturn,
                   execArgs, userMessage>>
    /\ UNCHANGED <<dbvars, avars, ivars, qvars, cvars, fvars, uvars>>

\* one run of experimental_repairToolCall: null makes the first error the
\* call's error, a throw becomes a ToolCallRepairError, a returned call is
\* parsed again
RunRepairToolCall ==
    /\ rpc = "repair"
    /\ \E r \in RepairToolCall(toolCall, firstError) :
           /\ callbackReturn' = r
           /\ callbackRuns' = callbackRuns + 1
           /\ repairCalls' = repairCalls + r.modelCalls
           /\ CASE r.kind = "null" ->
                     /\ userMessage' = OnError(firstError)
                     /\ rpc' = "done"
                [] r.kind = "thrown" ->
                     /\ userMessage' = OnError("ToolCallRepairError")
                     /\ rpc' = "done"
                [] OTHER ->
                     /\ rpc' = "reparse"
                     /\ UNCHANGED userMessage
    /\ UNCHANGED <<toolCall, firstError, execArgs>>
    /\ UNCHANGED <<dbvars, avars, ivars, qvars, cvars, fvars, uvars>>

\* the parse of the call the callback returned; its error is final
ReparseToolCall ==
    /\ rpc = "reparse"
    /\ LET error == DoParseToolCall(callbackReturn.call)
       IN  IF error = "ok"
           THEN /\ rpc' = "execute"
                /\ UNCHANGED userMessage
           ELSE /\ rpc' = "done"
                /\ userMessage' = OnError(error)
    /\ UNCHANGED <<toolCall, firstError, callbackRuns, repairCalls,
                   callbackReturn, execArgs>>
    /\ UNCHANGED <<dbvars, avars, ivars, qvars, cvars, fvars, uvars>>

\* the call that parsed: the emitted one, or the one the callback returned
ParsedCall == IF callbackRuns = 0 THEN toolCall ELSE callbackReturn.call

\* the tool's execute runs with the parsed arguments and returns or throws
ExecuteTool ==
    /\ rpc = "execute"
    /\ execArgs' = Some(ParsedCall.args)
    /\ \E returned \in BOOLEAN :
           userMessage' = IF returned THEN userMessage
                          ELSE OnError("ToolExecutionError")
    /\ rpc' = "done"
    /\ UNCHANGED <<toolCall, firstError, callbackRuns, repairCalls, callbackReturn>>
    /\ UNCHANGED <<dbvars, avars, ivars, qvars, cvars, fvars, uvars>>

\* the response is over; the next request starts afresh
ResponseFinished ==
    /\ rpc = "done"
    /\ rpc' = "idle"
    /\ toolCall' = NoCall
    /\ firstError' = "none"
    /\ callbackRuns' = 0
    /\ repairCalls' = 0
    /\ callbackReturn' = CallbackResult("none", NoCall, 0)
    /\ execArgs' = None
    /\ userMessage' = ""
    /\ UNCHANGED <<dbvars, avars, ivars, qvars, cvars, fvars, uvars>>

NextRepair ==
    \/ ToolCallEmitted
    \/ StreamFailed
    \/ ParseToolCall
    \/ RunRepairToolCall
    \/ ReparseToolCall
    \/ ExecuteTool
    \/ ResponseFinished

SpecRepair == InitRepair /\ [][NextRepair]_vars

(***************************************************************************)
(* Specification of retrieval: a Vector table, then any sequence of        *)
(* retrievals.                                                             *)
(***************************************************************************)
InitRetrieve ==
    /\ sales = {}
    /\ vectors \in VectorTables
    /\ AnalyticsIdle
    /\ csvFile = <<>>
    /\ IngestIdle
    /\ RepairIdle
    /\ RetrieveIdle
    /\ ChatIdle
    /\ ToolLayerIdle
    /\ NoUploads

\* one call of retrieveRelevantSalesRecords, with or without a threshold
Retrieve ==
    /\ qpc = "idle"
    /\ \E query \in QueryTexts, arg \in {None} \cup {Some(t) : t \in Thresholds} :
          LET maxDistance == IF arg = None THEN DefaultThreshold ELSE Get(arg)
          IN  /\ userQuery' = query
              /\ threshold' = maxDistance
              /\ scoredSales' \in RetrieveRelevantSalesRecords(vectors, query, maxDistance)
    /\ qpc' = "done"
    /\ UNCHANGED <<dbvars, avars, ivars, rvars, cvars, fvars, uvars>>

RetrieveReturned ==
    /\ qpc = "done"
    /\ qpc' = "idle"
    /\ userQuery' = <<>>
    /\ threshold' = DefaultThreshold
    /\ scoredSales' = <<>>
    /\ UNCHANGED <<dbvars, avars, ivars, rvars, cvars, fvars, uvars>>

NextRetrieve == Retrieve \/ RetrieveReturned

SpecRetrieve == InitRetrieve /\ [][NextRetrieve]_vars

(***************************************************************************)
(* Specification of getTopAggregates: an ingested dataset, then any        *)
(* sequence of calls.                                                      *)
(***************************************************************************)
InitTopAggregates ==
    /\ sales \in Datasets
    /\ vectors = VectorsOf(sales)
    /\ AnalyticsIdle
    /\ csvFile = <<>>
    /\ IngestIdle
    /\ RepairIdle
    /\ RetrieveIdle
    /\ ChatIdle
    /\ ToolLayerIdle
    /\ NoUploads

\* one call of the tool, from the model's request to the value handed back
GetTopAggregates ==
    /\ apc = "idle"
    /\ \E p \in TopParamSpace : \E o \in TopExecute(sales, vectors, p) :
           /\ params' = p
           /\ result' = o.result
           /\ queries' = o.queries
    /\ apc' = "done"
    /\ UNCHANGED <<dbvars, ivars, rvars, qvars, cvars, fvars, uvars>>

NextTopAggregates == GetTopAggregates \/ AnalyticsReturned

SpecTopAggregates == InitTopAggregates /\ [][NextTopAggregates]_vars

(***************************************************************************)
(* Specification of getInvoiceDetails: a dataset, then any sequence of     *)
(* calls.                                                                  *)
(***************************************************************************)
InitInvoiceDetails ==
    /\ sales \in Datasets
    /\ vectors = VectorsOf(sales)
    /\ AnalyticsIdle
    /\ csvFile = <<>>
    /\ IngestIdle
    /\ RepairIdle
    /\ RetrieveIdle
    /\ ChatIdle
    /\ ToolLayerIdle
    /\ NoUploads

GetInvoiceDetails ==
    /\ apc = "idle"
    /\ \E invoice \in InvoiceNumbers : \E o \in InvoiceDetails(sales, invoice) :
           /\ params' = [invoice |-> invoice]
           /\ result' = o.result
           /\ queries' = o.queries
    /\ apc' = "done"
    /\ UNCHANGED <<dbvars, ivars, rvars, qvars, cvars, fvars, uvars>>

NextInvoiceDetails == GetInvoiceDetails \/ AnalyticsReturned

SpecInvoiceDetails == InitInvoiceDetails /\ [][NextInvoiceDetails]_vars

(***************************************************************************)
(* The chat POST handler, one request after the other.  events lists what  *)
(* the request in progress did, in the order it did it.                    *)
(***************************************************************************)
InitChat ==
    /\ sales = {}
    /\ vectors = {}
    /\ csvFile = <<>>
    /\ AnalyticsIdle
    /\ IngestIdle
    /\ RepairIdle
    /\ RetrieveIdle
    /\ ChatIdle
    /\ ToolLayerIdle
    /\ NoUploads

\* "await request.json()" and "await auth()"
ChatPost ==
    /\ cpc \in {"idle", "done"}
    /\ posts < MaxPosts
    /\ posts' = posts + 1
    /\ \E session \in Sessions, messages \in RequestMessageLists, id \in ChatIds :
          chatRequest' = [session |-> session, messages |-> messages, id |-> id]
    /\ cpc' = "received"
    /\ events' = <<>>
    /\ httpResponse' = 0
    /\ modelResponse' = NoModelResponse
    /\ sanitized' = <<>>
    /\ UNCHANGED <<chats, stored>>
    /\ UNCHANGED <<dbvars, avars, ivars, rvars, qvars, fvars, uvars>>

\* the two early returns: 401 without a session or a user id, 400 without
\* a message of role user
CheckRequest ==
    /\ cpc = "received"
    /\ IF ~Authorized(chatRequest.session)
       THEN httpResponse' = 401 /\ cpc' = "done"
       ELSE IF GetMostRecentUserMessage(chatRequest.messages) = None
       THEN httpResponse' = 400 /\ cpc' = "done"
       ELSE httpResponse' = 0 /\ cpc' = "chat"
    /\ UNCHANGED <<chatRequest, chats, stored, events, modelResponse,
                   sanitized, posts>>
    /\ UNCHANGED <<dbvars, avars, ivars, rvars, qvars, fvars, uvars>>

\* getChatById and, for a chat not stored yet, generateTitleFromUserMessage
\* and saveChat; either of the awaited calls may throw, which ends the
\* request
LoadChat ==
    /\ cpc = "chat"
    /\ IF \E chat \in chats : chat.id = chatRequest.id
       THEN /\ cpc' = "saveUserMessage"
            /\ UNCHANGED <<chats, events, httpResponse>>
       ELSE \E outcome \in {"saved", "titleFails", "saveChatFails"} :
              /\ events' = events \o
                    (IF outcome = "titleFails" THEN <<"generateTitle">>
                     ELSE <<"generateTitle", "saveChat">>)
              /\ chats' = (IF outcome = "saved"
                           THEN chats \cup
                                {[id |-> chatRequest.id,
                                  userId |-> Trim(Get(Get(chatRequest.session).userId))]}
                           ELSE chats)
              /\ cpc' = (IF outcome = "saved" THEN "saveUserMessage" ELSE "done")
              /\ httpResponse' = (IF outcome = "saved" THEN 0 ELSE 500)
    /\ UNCHANGED <<chatRequest, stored, modelResponse, sanitized, posts>>
    /\ UNCHANGED <<dbvars, avars, ivars, rvars, qvars, fvars, uvars>>

\* a handler that goes on to the context without saving the user's message
SaveUserMessageSkipped ==
    /\ cpc = "saveUserMessage"
    /\ events' = Append(events, "saveUserMessage")
    /\ cpc' = "context"
    /\ UNCHANGED <<chatRequest, chats, stored, httpResponse, modelResponse,
                   sanitized, posts>>
    /\ UNCHANGED <<dbvars, avars, ivars, rvars, qvars, fvars, uvars>>

\* saveMessages for the user's message; createMany throws on an id that is
\* stored already, and may throw for the database's own reasons
SaveUserMessage ==
    /\ cpc = "saveUserMessage"
    /\ LET message == Get(GetMostRecentUserMessage(chatRequest.messages))
       IN  \E created \in (IF message.id \in StoredIds(stored)
                           THEN {FALSE} ELSE BOOLEAN) :
             /\ events' = Append(events, "saveUserMessage")
             /\ stored' = (IF created
                           THEN Append(stored, UserMessageRow(message, chatRequest.id))
                           ELSE stored)
             /\ cpc' = (IF created THEN "context" ELSE "done")
             /\ httpResponse' = (IF created THEN 0 ELSE 500)
    /\ UNCHANGED <<chatRequest, chats, modelResponse, sanitized, posts>>
    /\ UNCHANGED <<dbvars, avars, ivars, rvars, qvars, fvars, uvars>>

\* the context and the system prompt are built, then createDataStreamResponse
\* answers and its execute callback calls streamText
StreamText ==
    /\ cpc = "context"
    /\ events' = events \o <<"buildContext", "streamText">>
    /\ httpResponse' = 200
    /\ cpc' = "streaming"
    /\ UNCHANGED <<chatRequest, chats, stored, modelResponse, sanitized, posts>>
    /\ UNCHANGED <<dbvars, avars, ivars, rvars, qvars, fvars, uvars>>

\* onFinish: with a user id that is not blank the response messages are
\* sanitized and saved; a failure of the save is caught and logged
OnFinish ==
    /\ cpc = "streaming"
    /\ \E response \in ChatResponses :
          /\ modelResponse' =
                [response EXCEPT !.messages = WithFreshIds(@, 100 * posts)]
          /\ IF Trim(Get(Get(chatRequest.session).userId)) # <<>>
             THEN /\ sanitized' = SanitizeResponseMessages(modelResponse'.messages,
                                                           response.reasoning)
                  /\ \E created \in BOOLEAN :
                        /\ events' = events \o <<"onFinish", "saveResponse">>
                        /\ stored' =
                             (IF created
                              THEN stored \o
                                   [i \in DOMAIN sanitized' |->
                                      ResponseMessageRow(sanitized'[i], chatRequest.id)]
                              ELSE stored)
             ELSE /\ events' = Append(events, "onFinish")
                  /\ UNCHANGED <<sanitized, stored>>
    /\ cpc' = "done"
    /\ UNCHANGED <<chatRequest, chats, httpResponse, posts>>
    /\ UNCHANGED <<dbvars, avars, ivars, rvars, qvars, fvars, uvars>>

\* the stream fails: onError turns the error into a message and onFinish
\* does not run
ChatStreamFailed ==
    /\ cpc = "streaming"
    /\ events' = Append(events, "onError")
    /\ cpc' = "done"
    /\ UNCHANGED <<chatRequest, chats, stored, httpResponse, modelResponse,
                   sanitized, posts>>
    /\ UNCHANGED <<dbvars, avars, ivars, rvars, qvars, fvars, uvars>>

NextChat ==
    \/ ChatPost
    \/ CheckRequest
    \/ LoadChat
    \/ SaveUserMessage
    \/ StreamText
    \/ OnFinish
    \/ ChatStreamFailed

SpecChat == InitChat /\ [][NextChat]_vars

(***************************************************************************)
(* sanitizeResponseMessages on its own, over every list of response        *)
(* messages of the pool and every reasoning.                               *)
(***************************************************************************)
InitSanitize ==
    /\ sales = {}
    /\ vectors = {}
    /\ csvFile = <<>>
    /\ AnalyticsIdle
    /\ IngestIdle
    /\ RepairIdle
    /\ RetrieveIdle
    /\ cpc = "streaming"
    /\ chatRequest = NoRequest
    /\ chats = {}
    /\ stored = <<>>
    /\ events = <<>>
    /\ httpResponse = 200
    /\ \E messages \in ResponseMessageLists, reasoning \in Reasonings :
          modelResponse = [messages |-> messages, reasoning |-> reasoning]
    /\ sanitized = <<>>
    /\ posts = 0
    /\ ToolLayerIdle
    /\ NoUploads

Sanitize ==
    /\ cpc = "streaming"
    /\ sanitized' = SanitizeResponseMessages(modelResponse.messages,
                                             modelResponse.reasoning)
    /\ cpc' = "done"
    /\ UNCHANGED <<chatRequest, chats, stored, events, httpResponse,
                   modelResponse, posts>>
    /\ UNCHANGED <<dbvars, avars, ivars, rvars, qvars, fvars, uvars>>

SpecSanitize == InitSanitize /\ [][Sanitize]_vars

(***************************************************************************)
(* Specification of retrieveRelevantSales: a table of sales, then any      *)
(* sequence of calls.                                                      *)
(***************************************************************************)
InitRetrieveSales ==
    /\ sales \in SalesTables
    /\ vectors = {}
    /\ AnalyticsIdle
    /\ csvFile = <<>>
    /\ IngestIdle
    /\ RepairIdle
    /\ RetrieveIdle
    /\ ChatIdle
    /\ ToolLayerIdle
    /\ NoUploads

\* one call of retrieveRelevantSales
RetrieveSales ==
    /\ qpc = "idle"
    /\ \E query \in SalesQueryTexts :
          /\ userQuery' = query
          /\ \E out \in RetrieveRelevantSales(sales, query) :
                /\ result' = out.result
                /\ queries' = out.queries
    /\ qpc' = "done"
    /\ UNCHANGED <<dbvars, params, apc, threshold, scoredSales, ivars, rvars, cvars, fvars, uvars>>

RetrieveSalesReturned ==
    /\ qpc = "done"
    /\ qpc' = "idle"
    /\ userQuery' = <<>>
    /\ result' = [kind |-> "none"]
    /\ queries' = <<>>
    /\ UNCHANGED <<dbvars, params, apc, threshold, scoredSales, ivars, rvars, cvars, fvars, uvars>>

NextRetrieveSales == RetrieveSales \/ RetrieveSalesReturned

SpecRetrieveSales == InitRetrieveSales /\ [][NextRetrieveSales]_vars

(***************************************************************************)
(* Specification of the tool layer: the arguments of a call are parsed by  *)
(* the tool's parameter schema and read by execute; the helpers of the     *)
(* repair callback and the registry are applied on their own.              *)
(***************************************************************************)
InitToolLayer ==
    /\ sales = {}
    /\ vectors = {}
    /\ AnalyticsIdle
    /\ csvFile = <<>>
    /\ IngestIdle
    /\ RepairIdle
    /\ RetrieveIdle
    /\ ChatIdle
    /\ ToolLayerIdle
    /\ NoUploads

\* a call of a registered tool: its required fields and one optional field
ValidateToolCall ==
    /\ fnpc = "idle"
    /\ \E toolName \in ToolNames :
         \E args \in MinimalArgs(toolName), f \in OptionalFields(toolName),
            value \in FieldValues :
            /\ fnInput' = [op |-> "validate", toolName |-> toolName, field |-> f,
                            args |-> [args EXCEPT ![f] = value]]
            /\ fnOutput' = BehaviourOf(toolName, [args EXCEPT ![f] = value])
    /\ fnpc' = "done"
    /\ UNCHANGED <<dbvars, avars, ivars, rvars, qvars, cvars, uvars>>

ToolLayerReturned ==
    /\ fnpc = "done"
    /\ fnpc' = "idle"
    /\ fnInput' = <<>>
    /\ fnOutput' = <<>>
    /\ UNCHANGED <<dbvars, avars, ivars, rvars, qvars, cvars, uvars>>

\* flattenToolArgs applied to a JSON value
FlattenArgs ==
    /\ fnpc = "idle"
    /\ \E obj \in JsonValues(MaxDepth) :
          /\ fnInput' = [op |-> "flattenToolArgs", obj |-> obj]
          /\ fnOutput' = FlattenObj(obj)
    /\ fnpc' = "done"
    /\ UNCHANGED <<dbvars, avars, ivars, rvars, qvars, cvars, uvars>>

\* getExampleArgs applied to a parameter schema
ExampleArgs ==
    /\ fnpc = "idle"
    /\ \E schema \in ExampleSchemas :
          /\ fnInput' = [op |-> "getExampleArgs", schema |-> schema]
          /\ fnOutput' = GetExampleArgsOf(schema.shape)
    /\ fnpc' = "done"
    /\ UNCHANGED <<dbvars, avars, ivars, rvars, qvars, cvars, uvars>>

\* a look-up of a name in toolsMapping
DispatchTool ==
    /\ fnpc = "idle"
    /\ \E name \in DispatchNames :
          /\ fnInput' = [op |-> "dispatch", name |-> name]
          /\ fnOutput' = Dispatch(name)
    /\ fnpc' = "done"
    /\ UNCHANGED <<dbvars, avars, ivars, rvars, qvars, cvars, uvars>>

NextToolLayer ==
    \/ ValidateToolCall
    \/ FlattenArgs
    \/ ExampleArgs
    \/ DispatchTool
    \/ ToolLayerReturned

SpecToolLayer == InitToolLayer /\ [][NextToolLayer]_vars

(***************************************************************************)
(* Specification of concurrent uploads.  The upload form posts its files   *)
(* with Promise.all, so two POST requests with the same rows run at the    *)
(* same time: each takes its snapshot of the Sales table once, before its  *)
(* stream starts, and inserts its batches one after the other.             *)
(***************************************************************************)
\* the requests in flight
Uploaders == {1, 2}

\* generateUUID(): an id no other row of any request has
UploadId(i, position) == 100 * i + position

\* invoiceChunk of request i: the k-th chunk of its rows under fresh ids
UploadInvoiceChunk(i, data, k) ==
    LET chunk == Chunk(data, k)
    IN  [j \in DOMAIN chunk |->
            StoredRow(chunk[j], UploadId(i, (k - 1) * ChunkSize + j))]

InitUploads ==
    /\ sales = {}
    /\ vectors = {}
    /\ AnalyticsIdle
    /\ csvFile \in Files
    /\ IngestIdle
    /\ RepairIdle
    /\ RetrieveIdle
    /\ ChatIdle
    /\ ToolLayerIdle
    /\ uploads = [i \in Uploaders |->
                    [pc |-> "idle", newCleanData |-> <<>>, chunkNo |-> 0]]

\* POST of request i up to "return new Response(stream)": the rows whose
\* key is not among the keys stored now
UploadSnapshot(i) ==
    /\ uploads[i].pc = "idle"
    /\ \E accepted \in BOOLEAN :
          uploads' = [uploads EXCEPT ![i] =
                        IF accepted
                        THEN [pc |-> "start",
                              newCleanData |-> NewCleanData(csvFile, sales),
                              chunkNo |-> 1]
                        ELSE [@ EXCEPT !.pc = "refused"]]
    /\ UNCHANGED <<dbvars, avars, ivars, rvars, qvars, cvars, fvars>>

\* one round of request i's "for (const chunk of chunks)": the stream is
\* closed after the last chunk; otherwise the chunk is embedded and
\* inserted, or the run ends on the failure of one of the two inserts
UploadChunk(i) ==
    /\ uploads[i].pc = "start"
    /\ LET u == uploads[i]
       IN  IF u.chunkNo > NumChunks(u.newCleanData)
           THEN /\ uploads' = [uploads EXCEPT ![i].pc = "closed"]
                /\ UNCHANGED dbvars
           ELSE \E outcome \in {"inserted", "createError", "vectorsError"} :
                  LET rows == UploadInvoiceChunk(i, u.newCleanData, u.chunkNo)
                  IN  /\ sales' = IF outcome = "createError" THEN sales
                                  ELSE sales \cup RowsOf(rows)
                      /\ vectors' = IF outcome = "inserted"
                                    THEN vectors \cup VectorData(rows)
                                    ELSE vectors
                      /\ uploads' = [uploads EXCEPT ![i] =
                                       IF outcome = "inserted"
                                       THEN [@ EXCEPT !.chunkNo = @ + 1]
                                       ELSE [@ EXCEPT !.pc = "closed after error"]]
    /\ UNCHANGED <<avars, ivars, rvars, qvars, cvars, fvars>>

NextUploads == \E i \in Uploaders : UploadSnapshot(i) \/ UploadChunk(i)

SpecUploads == InitUploads /\ [][NextUploads]_vars

(***************************************************************************)
(* Properties of getSalesAnalytics.                                        *)
(***************************************************************************)
\* a row satisfies every filter the call supplies: the inclusive date range,
\* the payment method, the invoice substring, the customer substring
SatisfiesAll(r, p) ==
    /\ p.startDate = None \/ r.purchaseDate >= ParseISODate(Get(p.startDate))
    /\ p.endDate = None \/ r.purchaseDate <= ParseISODate(Get(p.endDate))
    /\ p.paymentMethod = None \/ r.paymentMethod = Get(p.paymentMethod)
    /\ p.invoice = None \/ Includes(r.invoice, Get(p.invoice))
    /\ p.customer = None
         \/ Includes(ToLowerCase(r.customer), ToLowerCase(Get(p.customer)))

AmountOf(fmt) == fmt.whole * 100 + fmt.frac

RECURSIVE SumSeq(_)
SumSeq(s) == IF s = <<>> THEN 0 ELSE Head(s) + SumSeq(Tail(s))

\* the sum of the Total fields of what FILTER returns for the same filters
FilterTotal(S, p) ==
    LET o == CHOOSE x \in FilterBranch(S, [p EXCEPT !.operation = "FILTER"]) : TRUE
    IN  IF o.result.kind = "lines"
        THEN SumSeq([i \in DOMAIN o.result.lines |->
                       AmountOf(o.result.lines[i].total)])
        ELSE 0

\* C1: ANALYTICS/TOTAL_SALES with filters F reports the sum of total over
\* exactly the rows FILTER returns for F.
C1_TotalSalesEqualsFilterSum ==
    (apc = "done" /\ params.operation = "ANALYTICS"
       /\ params.analyticsType = Some("TOTAL_SALES"))
       /\ result.kind = "totalSales"
    => AmountOf(result.amount) = FilterTotal(sales, params)

\* C2: in every mode, every row a query of the call reads satisfies all the
\* supplied filters (the filters are ANDed and none is ignored).
C2_AllFiltersApplied ==
    apc = "done" =>
        \A i \in DOMAIN queries :
            \A r \in Select(sales, queries[i].where) : SatisfiesAll(r, params)

\* C3: without a limit, the Sales Count values of TREND add up to what
\* ANALYTICS/SALES_COUNT reports for the same filters and date range.
C3_TrendCountsSumToSalesCount ==
    (apc = "done" /\ params.operation = "TREND" /\ params.groupBy # None
       /\ params.limit = 0)
    => \A o \in AnalyticsBranch(sales,
                  [params EXCEPT !.operation = "ANALYTICS",
                                 !.analyticsType = Some("SALES_COUNT")]) :
          o.result.kind = "salesCount"
          => o.result.count =
               SumSeq([i \in DOMAIN result.lines |-> result.lines[i].count])

\* the payment methods a "not available" text lists after its first sentence
ListedMethods(text) == {text[i] : i \in 4..Len(text)}

PresentMethods(S) == {r.paymentMethod : r \in S}

\* C4: ANALYTICS with a payment method absent from the data answers with a
\* text listing exactly the methods present and aggregates nothing; a method
\* present in the data is never reported as unavailable.
C4_UnknownMethodListsPresentOnes ==
    (apc = "done" /\ params.operation = "ANALYTICS"
       /\ params.analyticsType # None /\ params.paymentMethod # None)
    => IF Get(params.paymentMethod) \notin PresentMethods(sales)
       THEN /\ result.kind = "text"
            /\ Len(result.text) >= 3
            /\ result.text[3] = "' is not available."
            /\ ListedMethods(result.text) = PresentMethods(sales)
            /\ \A i \in DOMAIN queries :
                  queries[i].op \notin {"aggregateSum", "aggregateAvg"}
       ELSE ~(result.kind = "text" /\ Len(result.text) >= 3
                /\ result.text[3] = "' is not available.")

C10_FilterOrderedOrSentinel ==
    (apc = "done" /\ params.operation = "FILTER")
    => LET M == {r \in sales : SatisfiesAll(r, params)}
       IN  IF M = {}
           THEN /\ result.kind = "text"
                /\ result.text = <<"No sales records found for the given filters.">>
           ELSE /\ result.kind = "lines"
                /\ \E f \in Arrangements(M) :
                      result.lines = [i \in DOMAIN f |-> FilterLine(f[i])]
                /\ \A i, j \in DOMAIN result.lines : i < j =>
                      ParseISODate(result.lines[i].purchaseDate)
                        >= ParseISODate(result.lines[j].purchaseDate)

C10_Witness ==
    /\ apc = "done" /\ params.operation = "FILTER"
    /\ params.customer # None /\ params.startDate = None
    /\ result.kind = "lines" /\ Len(result.lines) >= 2
    /\ result.lines[1].purchaseDate # result.lines[2].purchaseDate

\* C11: a getSalesAnalytics call that runs without an error never returns the
\* empty string; with no matching row it returns a descriptive text.
C11_EmptyResultIsDescribed ==
    (apc = "done" /\ result.kind # "error") => ~IsEmptyString(result)

\* C12: ANALYTICS/AVERAGE_SALES with filters F reports the sum of total over
\* the rows matching F divided by their number, and 0.00 when no row matches
\* F (F's payment method, if any, being one the data has).
C12_AverageIsTotalOverCount ==
    ( /\ apc = "done"
      /\ params.operation = "ANALYTICS"
      /\ params.analyticsType = Some("AVERAGE_SALES")
      /\ params.paymentMethod # None =>
             Get(params.paymentMethod) \in PresentMethods(sales) )
    => LET M == {r \in sales : SatisfiesAll(r, params)}
       IN  /\ result.kind = "averageSale"
           /\ result.amount =
                IF M = {} THEN [whole |-> 0, frac |-> 0]
                ELSE FormatFraction(SumTotal(M), Cardinality(M))

(***************************************************************************)
(* Claims about CSV ingestion.                                             *)
(***************************************************************************)
\* C5: once an import of the file has run to its normal end, importing the
\* same file again inserts no Sales row, so no (invoice, item, total) tuple
\* of the file is stored more often than after the first import.
C5_ReimportInsertsNothing ==
    [][okRuns >= 1 => sales' = sales]_vars

\* the retry loop of a batch as the claim describes it, the end of the run
\* apart
RetryLoopBounded ==
    /\ [](ipc = "insert" => retries \in 0..(maxRetries - 1))
    /\ [][ipc = "start" /\ ipc' = "insert" => retries' = 0]_vars
    /\ [][ipc = "insert" /\ retries' = maxRetries
            => /\ ipc' = "idle"
               /\ lastRun' = "closed after error"
               /\ stream' = Append(stream,
                    ErrorMessage("Max retries reached during insertion"))
               /\ chunkNo' = chunkNo]_vars
    /\ [][ipc = "insert" /\ retries' = retries /\ ipc' # "start"
            => /\ ipc' = "idle"
               /\ lastRun' = "closed after error"
               /\ Len(stream') = Len(stream) + 1]_vars

\* C19: a batch's insertion is attempted at most 5 times, the counter
\* starting at 0 for every batch; P1017 leads to a retry, the 5th P1017 of a
\* batch enqueues the error and ends the run with no later batch processed,
\* any other error ends the run at once; and a run always ends with the
\* stream closed.
C19_RetriesBoundedRunClosed ==
    /\ RetryLoopBounded
    /\ [](ipc = "idle" /\ lastRun \notin {"none", "401", "400"}
            => lastRun \in {"closed", "closed after error"})

\* C27: when an ingestion run has ended, whatever way (normal end, retries
\* exhausted, another error, a rejected start()), every Sales row the runs
\* inserted has exactly one Vector row with its id, and no Sales row is
\* stored twice.
C27_SalesAndVectorsPaired ==
    (ipc = "idle" /\ lastRun \notin {"none", "401", "400"}) =>
       /\ \A r \in sales : Cardinality({v \in vectors : v.id = r.id}) = 1
       /\ \A r, q \in sales : r.id = q.id => r = q

(***************************************************************************)
(* Claims about tool-call repair.                                          *)
(***************************************************************************)
PastRepair == rpc \in {"reparse", "execute", "done"}

\* C6: a tool call whose arguments fail validation gets exactly one run of
\* the repair callback and exactly one call to the repair model, never a
\* second; if the repaired arguments fail validation too, the call ends with
\* the text "Tool Arguments Invalid!" and the tool is not executed; a call
\* that is executed after a repair runs with the repair model's text as its
\* whole arguments (same call id, same tool), and a call that is not
\* executed ends with an error text.
C6_OneRepairThenTerminal ==
    /\ callbackRuns <= 1
    /\ repairCalls <= 1
    /\ (firstError = "InvalidToolArgumentsError" /\ PastRepair) =>
          /\ callbackRuns = 1
          /\ repairCalls = 1
    /\ ( /\ firstError = "InvalidToolArgumentsError"
         /\ rpc = "done"
         /\ callbackReturn.kind = "call"
         /\ DoParseToolCall(callbackReturn.call) # "ok" ) =>
          /\ userMessage = "Tool Arguments Invalid!"
          /\ execArgs = None
    /\ (firstError = "InvalidToolArgumentsError" /\ execArgs # None) =>
          /\ callbackReturn.kind = "call"
          /\ callbackReturn.call.toolCallId = toolCall.toolCallId
          /\ callbackReturn.call.toolName = toolCall.toolName
          /\ Get(execArgs) = callbackReturn.call.args
          /\ Get(execArgs) \in ArgTexts
          /\ DoParseToolCall(callbackReturn.call) = "ok"
    /\ (firstError = "InvalidToolArgumentsError" /\ rpc = "done" /\ execArgs = None) =>
          userMessage \in {"Tool Arguments Invalid!", "Tool Repair Failed!"}

\* a call with invalid arguments, repaired once into arguments that are
\* invalid again, has ended with the terminal text
C6_Witness ==
    /\ rpc = "done"
    /\ firstError = "InvalidToolArgumentsError"
    /\ callbackReturn.kind = "call"
    /\ callbackReturn.call.args # toolCall.args
    /\ repairCalls = 1
    /\ userMessage = "Tool Arguments Invalid!"

\* C7: a call to a tool name that is not in the registry makes the repair
\* callback return null without a call to the repair model, the tool is not
\* executed and the user gets "No such tool exist!".
C7_NoSuchToolNotRepaired ==
    /\ ( /\ toolCall # NoCall
         /\ toolCall.toolName \notin ToolNames
         /\ rpc \notin {"idle", "parse"} ) =>
          /\ firstError = "NoSuchToolError"
          /\ repairCalls = 0
          /\ execArgs = None
    /\ (firstError = "NoSuchToolError" /\ PastRepair) =>
          /\ callbackReturn.kind = "null"
          /\ repairCalls = 0
          /\ rpc = "done"
          /\ userMessage = "No such tool exist!"

\* a call to a tool that does not exist has ended
C7_Witness ==
    /\ rpc = "done"
    /\ toolCall.toolName = "getWeather"
    /\ callbackRuns = 1
    /\ userMessage = "No such tool exist!"

(***************************************************************************)
(* Claims about retrieval.                                                 *)
(***************************************************************************)
QueryEmbedding == EmbeddingOf(ToUpperCase(userQuery))

DistanceOf(v) == CosineDistance(v.embedding, QueryEmbedding)

Scores == [i \in DOMAIN scoredSales |-> scoredSales[i].score]

\* C8: retrieveRelevantSalesRecords returns exactly the Vector rows whose
\* cosine distance to the query's embedding is at most the threshold (a row
\* at the threshold is returned), each once and with its distance as score,
\* closest first; with rows at distances 0.1, 0.5 and 0.9 and threshold 0.7
\* the result is the first two, in that order.
C8_WithinThresholdAscending ==
    qpc = "done" =>
       /\ {scoredSales[i].id : i \in DOMAIN scoredSales}
             = {v.id : v \in {w \in vectors : DistanceOf(w) <= threshold}}
       /\ \A i, j \in DOMAIN scoredSales :
             i # j => scoredSales[i].id # scoredSales[j].id
       /\ \A i \in DOMAIN scoredSales : \A v \in vectors :
             v.id = scoredSales[i].id => scoredSales[i].score = DistanceOf(v)
       /\ \A i, j \in DOMAIN scoredSales :
             i < j => scoredSales[i].score <= scoredSales[j].score
       /\ ( /\ Cardinality(vectors) = 3
            /\ {DistanceOf(v) : v \in vectors} = {100, 500, 900}
            /\ threshold = 700 ) => Scores = <<100, 500>>

\* the three rows at 0.1, 0.5 and 0.9 were searched with threshold 0.7
C8_Witness ==
    /\ qpc = "done"
    /\ Cardinality(vectors) = 3
    /\ {DistanceOf(v) : v \in vectors} = {100, 500, 900}
    /\ threshold = 700
    /\ Scores = <<100, 500>>

(***************************************************************************)
(* Claims about getTopAggregates and getInvoiceDetails.                    *)
(***************************************************************************)
\* the rows the grouped lines of the call were computed over: those of the
\* last query issued before the invoice one
AggregatedRows ==
    LET loads == SelectSeq(queries, LAMBDA q : q.op # "groupByInvoice")
    IN  IF loads = <<>> THEN {} ELSE TopSelect(sales, loads[Len(loads)].where)

\* C13: with groupBy ITEM, the average price on an item's line is the sum of
\* price * quantity over the item's rows divided by the sum of their
\* quantities, and 0.00 when that sum is 0; there is one line per item.
C13_ItemAveragePrice ==
    (apc = "done" /\ params.groupBy = "ITEM" /\ result.kind = "items") =>
       /\ \A i \in DOMAIN result.lines :
            LET line == result.lines[i]
                g == {r \in AggregatedRows : r.item = line.item}
                quantity == SumOver(g, [r \in g |-> r.quantity])
                worth == SumOver(g, [r \in g |-> r.price * r.quantity])
            IN  /\ g # {}
                /\ line.totalQuantity = quantity
                /\ line.averagePrice =
                     IF quantity = 0 THEN [whole |-> 0, frac |-> 0]
                     ELSE FormatFraction(worth, quantity)
       /\ \A i, j \in DOMAIN result.lines :
            i # j => result.lines[i].item # result.lines[j].item

\* an item sold at two prices in different quantities next to an item whose
\* total quantity is 0
C13_Witness ==
    /\ apc = "done"
    /\ params.groupBy = "ITEM"
    /\ result.kind = "items"
    /\ \E i \in DOMAIN result.lines :
          /\ result.lines[i].totalQuantity = 5
          /\ result.lines[i].averagePrice = [whole |-> 7, frac |-> 0]
    /\ \E i \in DOMAIN result.lines :
          /\ result.lines[i].totalQuantity = 0
          /\ result.lines[i].averagePrice = [whole |-> 0, frac |-> 0]

\* C14: with a region, the invoice block (unique invoices, their total, the
\* total divided by their number or 0) is computed over the rows the grouped
\* lines above it were computed over.
C14_InvoiceTrendsOverSameRows ==
    ( /\ apc = "done"
      /\ result.kind \in {"items", "groups"}
      /\ Truthy(params.region) ) =>
       /\ result.invoiceTrends # None
       /\ LET t == Get(result.invoiceTrends)
              invoices == {r.invoice : r \in AggregatedRows}
              amount == SumOver(AggregatedRows, [r \in AggregatedRows |-> r.total])
          IN  /\ t.uniqueInvoices = Cardinality(invoices)
              /\ t.totalInvoiceAmount = FormatFraction(amount, 1)
              /\ t.averageInvoiceValue =
                   IF invoices = {} THEN [whole |-> 0, frac |-> 0]
                   ELSE FormatFraction(amount, Cardinality(invoices))

\* C15: getInvoiceDetails lists one line per row whose invoice is exactly the
\* argument and no other row, with an overall total that is the sum of
\* those rows' totals (20 and 5 give 25.00); with no such row it returns
\* "No records found for invoice <invoice>.".
C15_InvoiceDetailsExact ==
    apc = "done" =>
       LET M == {r \in sales : r.invoice = params.invoice}
       IN  IF M = {}
           THEN /\ result.kind = "text"
                /\ result.text = <<"No records found for invoice ", params.invoice, ".">>
           ELSE /\ result.kind = "invoice"
                /\ result.invoice = params.invoice
                /\ \E f \in Arrangements(M) :
                      result.lines = [i \in DOMAIN f |-> DetailLine(f[i])]
                /\ AmountOf(result.overallTotal) =
                      SumSeq([i \in DOMAIN result.lines |->
                                AmountOf(result.lines[i].total)])
                /\ AmountOf(result.overallTotal) =
                      100 * SumOver(M, [r \in M |-> r.total])

\* the invoice with rows of 20 and 5 among rows of other invoices
C15_Witness ==
    /\ apc = "done"
    /\ params.invoice = <<"J","1","0">>
    /\ Cardinality(sales) = 3
    /\ result.kind = "invoice"
    /\ Len(result.lines) = 2
    /\ result.overallTotal = [whole |-> 25, frac |-> 0]

(***************************************************************************)
(* Claims about the chat route.                                            *)
(***************************************************************************)
RequestUnauthorized ==
    \/ chatRequest.session = None
    \/ ~Truthy(Get(chatRequest.session).userId)

\* C16: a chat POST whose session is missing or has no userId is answered
\* with 401 and does nothing else: no chat is created, no message is stored,
\* no title, embedding or model call is made.
C16_UnauthorizedBeforeSideEffects ==
    /\ [](cpc # "idle" /\ RequestUnauthorized
            => /\ events = <<>>
               /\ cpc \in {"received", "done"}
               /\ (cpc = "done" => httpResponse = 401))
    /\ [][cpc = "received" /\ RequestUnauthorized
            => /\ httpResponse' = 401
               /\ cpc' = "done"
               /\ UNCHANGED <<chats, stored, events>>]_vars

C16_Witness ==
    /\ cpc = "done"
    /\ httpResponse = 401
    /\ chatRequest.session # None
    /\ stored # <<>>

IsPrefix(s, t) == Len(s) <= Len(t) /\ SubSeq(t, 1, Len(s)) = s

\* the orders in which a request may do its steps
StepOrders ==
    LET tails == { <<"saveUserMessage", "buildContext", "streamText",
                     "onFinish", "saveResponse">>,
                   <<"saveUserMessage", "buildContext", "streamText",
                     "onError">> }
    IN  tails \cup {<<"generateTitle", "saveChat">> \o t : t \in tails}

UserMessageSaved ==
    LET found == GetMostRecentUserMessage(chatRequest.messages)
    IN  /\ found # None
        /\ \E i \in DOMAIN stored :
              /\ stored[i].id = Get(found).id
              /\ stored[i].role = "user"
              /\ stored[i].chatId = chatRequest.id

ResponseRows(rows) == SelectSeq(rows, LAMBDA row : row.role # "user")

\* C17: a request does its steps in the order session check, saving of the
\* user's message, context construction, model invocation (streamText),
\* saving of the response: streamText never runs before the user's message
\* is stored, assistant messages are stored only by onFinish, and a request
\* without a message of role user is answered with 400 with nothing stored.
C17_StepsInOrder ==
    /\ [](/\ \E order \in StepOrders : IsPrefix(events, order)
          /\ (events # <<>> => Authorized(chatRequest.session))
          /\ ((\E i \in DOMAIN events : events[i] = "streamText")
                => UserMessageSaved))
    /\ [][ResponseRows(stored') # ResponseRows(stored)
            => /\ cpc = "streaming"
               /\ events' = events \o <<"onFinish", "saveResponse">>]_vars
    /\ [][(/\ cpc = "received"
           /\ Authorized(chatRequest.session)
           /\ GetMostRecentUserMessage(chatRequest.messages) = None)
            => /\ httpResponse' = 400
               /\ cpc' = "done"
               /\ UNCHANGED <<chats, stored, events>>]_vars

C17_Witness ==
    /\ cpc = "done"
    /\ events = <<"generateTitle", "saveChat", "saveUserMessage",
                  "buildContext", "streamText", "onFinish", "saveResponse">>
    /\ ResponseRows(stored) # <<>>
    /\ UserMessageSaved

HasToolResult(messages, id) ==
    \E i \in DOMAIN messages :
        /\ messages[i].role = "tool"
        /\ \E j \in DOMAIN messages[i].content.parts :
              /\ messages[i].content.parts[j].type = "tool-result"
              /\ messages[i].content.parts[j].toolCallId = id

\* the parts of an assistant message the claim keeps
PartsToKeep(message, messages) ==
    SelectSeq(message.content.parts,
              LAMBDA part :
                 /\ ~(part.type = "text" /\ part.text = <<>>)
                 /\ ~(part.type = "tool-call"
                        /\ ~HasToolResult(messages, part.toolCallId)))

ContentIsEmpty(message) ==
    IF message.content.kind = "parts" THEN message.content.parts = <<>>
    ELSE message.content.string = <<>>

\* the messages the claim describes for a response without reasoning
SanitizedAsDescribed(messages) ==
    LET cleaned ==
          [i \in DOMAIN messages |->
              IF messages[i].role = "assistant"
                 /\ messages[i].content.kind = "parts"
              THEN [messages[i] EXCEPT
                      !.content.parts = PartsToKeep(messages[i], messages)]
              ELSE messages[i]]
    IN  SelectSeq(cleaned, LAMBDA message : ~ContentIsEmpty(message))

\* C18: the output of sanitizeResponseMessages has no empty text part and
\* no tool-call part without a tool-result in a tool message of the input;
\* every other part is kept in its order, and only the messages left with
\* empty content are dropped.
C18_SanitizedAsSpecified ==
    cpc = "done" =>
      /\ \A i \in DOMAIN sanitized :
            sanitized[i].role = "assistant" /\ sanitized[i].content.kind = "parts"
            => \A j \in DOMAIN sanitized[i].content.parts :
                  LET part == sanitized[i].content.parts[j]
                  IN  /\ ~(part.type = "text" /\ part.text = <<>>)
                      /\ (part.type = "tool-call"
                            => HasToolResult(modelResponse.messages, part.toolCallId))
      /\ (~ValidReasoning(modelResponse.reasoning)
            => sanitized = SanitizedAsDescribed(modelResponse.messages))

\* the ownership test of DELETE: the chat's user id and the session's are
\* equal once trimmed
OwnedBySession(chat, session) ==
    Trim(chat.userId) = Trim(Get(Get(session).userId))

\* C29: the POST handler stores a user message in a chat only when the chat
\* belongs to the user of the request's session.
C29_UserMessageOnlyIntoOwnChat ==
    [][(cpc = "saveUserMessage" /\ stored' # stored)
          => \E chat \in chats : /\ chat.id = chatRequest.id
                                 /\ OwnedBySession(chat, chatRequest.session)]_vars

\* an assistant message whose content is a non-empty plain string
PlainAssistantMessage(message) ==
    /\ message.role = "assistant"
    /\ message.content.kind = "string"
    /\ Len(message.content.string) > 0

\* C30: when onFinish sanitizes and saves a response, every assistant
\* message of the response whose content is a non-empty plain string is kept
\* by sanitizeResponseMessages and, unless the save fails, is stored.
C30_PlainStringResponseKept ==
    [][(/\ cpc = "streaming"
        /\ events' = events \o <<"onFinish", "saveResponse">>)
          => \A i \in DOMAIN modelResponse'.messages :
                LET message == modelResponse'.messages[i]
                IN  PlainAssistantMessage(message)
                      => /\ \E j \in DOMAIN sanitized' : sanitized'[j] = message
                         /\ \/ stored' = stored
                            \/ message.id \in StoredIds(stored')]_vars

(***************************************************************************)
(* Claims about retrieveRelevantSales.                                     *)
(***************************************************************************)
QueryNamesTotal ==
    \/ ContainsInsensitive(userQuery, TotalSumPhrase)
    \/ ContainsInsensitive(userQuery, TotalSalesPhrase)

\* what ANALYTICS / TOTAL_SALES returns without any filter
TotalSalesOutcomes ==
    Execute(sales, Params("ANALYTICS",
                          [startDate |-> None, endDate |-> None,
                           paymentMethod |-> None, invoice |-> None,
                           customer |-> None],
                          Some("TOTAL_SALES"), None, 0, "totalSales", "DESC"))

\* C20: for a query that contains 'total sum' or 'total sales' in any letter
\* case, retrieveRelevantSales returns the sum of total over all rows, does
\* not call the embedding client, and its amount is the amount that
\* ANALYTICS / TOTAL_SALES reports without a filter.
C20_FastPathIsTotalSales ==
    qpc = "done" /\ QueryNamesTotal =>
      /\ result.kind = "totalSum"
      /\ 100 * result.amount.whole + result.amount.frac = 100 * SumTotal(sales)
      /\ \A i \in DOMAIN queries : queries[i].op # "generateEmbeddings"
      /\ \A out \in TotalSalesOutcomes :
            /\ out.result.kind = "totalSales"
            /\ out.result.amount.whole = result.amount.whole
            /\ out.result.amount.frac = result.amount.frac

C20_Witness ==
    /\ qpc = "done"
    /\ QueryNamesTotal
    /\ userQuery # ToLowerCase(userQuery)
    /\ result.kind = "totalSum"
    /\ result.amount.whole = 1225

(***************************************************************************)
(* Claims about the tool layer.                                            *)
(***************************************************************************)
\* C21: for every optional parameter of every registered tool, a call that
\* carries the string "null" or "None" in that field validates and behaves
\* as the call without the field.
C21_SentinelIsFieldAbsent ==
    (/\ fnpc = "done"
     /\ fnInput.op = "validate"
     /\ fnInput.args[fnInput.field] \in {Str("null"), Str("None")})
      => /\ fnOutput.valid
         /\ fnOutput = BehaviourOf(fnInput.toolName,
                          [fnInput.args EXCEPT ![fnInput.field] = Undefined])

RECURSIVE HasWrapper(_)
\* some object of the value has value as its only key
HasWrapper(x) ==
    CASE x.type = "object" ->
            \/ DOMAIN x.fields = {"value"}
            \/ \E key \in DOMAIN x.fields : HasWrapper(x.fields[key])
      [] x.type = "array" -> \E i \in DOMAIN x.items : HasWrapper(x.items[i])
      [] OTHER -> FALSE

\* C22: the result of flattenToolArgs holds no object whose only key is
\* value, at any depth, and a value without such an object is returned as
\* it is.
C22_FlattenRemovesEveryWrapper ==
    (fnpc = "done" /\ fnInput.op = "flattenToolArgs")
      => /\ ~HasWrapper(fnOutput)
         /\ (~HasWrapper(fnInput.obj) => fnOutput = fnInput.obj)

RECURSIVE ExampleByKind(_)
\* one example per field according to the field's kind
ExampleByKind(shape) ==
    [key \in DOMAIN shape |->
        CASE shape[key].base = "enum" -> EnumValues(shape[key].values)
          [] shape[key].base = "object" -> Obj(ExampleByKind(shape[key].shape))
          [] shape[key].base = "string" -> Str("example")
          [] shape[key].base = "number" -> Num("0")]

\* C23: getExampleArgs gives every field of a schema the example of its
\* kind (the allowed values of an enum, a placeholder for a string, 0 for a
\* number, the skeleton of a nested object), also for the fields of the
\* registered tools, which are optional, nullable, defaulted or preprocessed.
C23_ExamplePerFieldKind ==
    (fnpc = "done" /\ fnInput.op = "getExampleArgs")
      => fnOutput = ExampleByKind(fnInput.schema.shape)

\* C24: toolsMapping publishes every base tool under its name and under an
\* alias spelling, both names give the tool registered under the base name,
\* and no name gives another tool.
C24_EveryToolUnderTwoNames ==
    (fnpc = "done" /\ fnInput.op = "dispatch")
      => /\ \A name \in ToolNames :
               /\ (fnInput.name = name => fnOutput = Some(BaseTools[name]))
               /\ (fnInput.name = UnderscoreSpelling(name)
                     => fnOutput = Some(BaseTools[name]))
         /\ (fnOutput # None => \E name \in ToolNames : fnOutput = Some(BaseTools[name]))

(***************************************************************************)
(* Claims about the rows getTopAggregates aggregates.                      *)
(***************************************************************************)
\* the filters the caller supplied, the item one included
SuppliedFilters(p) == [TopFilter(p) EXCEPT !.item = BuildStringFilter(p.item)]

\* C25: with groupBy ITEM and no item filter, over a dataset with at least
\* one row matching the other filters, the call returns per-item lines and
\* not "No sales records found for the given filters.".
C25_ItemGroupingWithoutItem ==
    ( /\ apc = "done"
      /\ params.groupBy = "ITEM"
      /\ ~Truthy(params.item)
      /\ TopSelect(sales, SuppliedFilters(params)) # {} ) =>
       /\ result.kind = "items"
       /\ Len(result.lines) >= 1

\* C26: for every groupBy, every row the returned lines were computed over
\* satisfies all the filters supplied (date range, region, customer,
\* invoice, payment method, item).
C26_AggregatedRowsSatisfyFilters ==
    (apc = "done" /\ result.kind \in {"items", "groups"}) =>
       \A r \in AggregatedRows : TopMatches(r, SuppliedFilters(params))

(***************************************************************************)
(* Claims about concurrent uploads.                                        *)
(***************************************************************************)
\* a file one request alone imports without duplicates: its rows have
\* different keys, and the key computed for a row is the key of the row
\* stored for it
KeysStable(file) ==
    LET data == CleanData(file)
    IN  /\ \A i, j \in DOMAIN data :
              IncomingKey(data[i]) = IncomingKey(data[j]) => i = j
        /\ \A i \in DOMAIN data :
              LET r == StoredRow(data[i], 0)
              IN  IncomingKey(data[i]) = DedupKey(r.invoice, r.item, r.total)

\* C28: two requests with the same rows, running concurrently, never leave
\* two Sales rows with the same (invoice, item, total).
C28_ConcurrentUploadsNoDuplicates ==
    KeysStable(csvFile) =>
       \A r, q \in sales :
          DedupKey(r.invoice, r.item, r.total) = DedupKey(q.invoice, q.item, q.total)
             => r = q

=============================================================================
